---- MODULE Spec2Model ----
(***************************************************************************)
(* Task graph and reconciliation engine of mcp-shrimp-task-manager.        *)
(*                                                                         *)
(* The tool handlers executeTask, verifyTask and splitTasksRaw are         *)
(* translated from the sources.  The task model they call                  *)
(* (models/taskModel: getTaskById, canExecuteTask, updateTaskStatus,       *)
(* updateTaskSummary, batchCreateOrUpdateTasks, clearAllTasks) is not      *)
(* part of the sources at hand and is modelled from the specification.     *)
(*                                                                         *)
(* Strings are kept as strings; a task id is the decimal rendering of a    *)
(* counter, a timestamp is a natural number read from a clock that may or  *)
(* may not have advanced between two operations.                           *)
(***************************************************************************)
EXTENDS Integers, Sequences, FiniteSets, TLC

\* ---------------------------------------------------------------- bounds
\* The number of task ids that are ever assigned.
MaxId == 2

\* The last timestamp the clock reaches.
MaxClock == 2

\* The number of backups that are ever written.
MaxBackups == 1

\* The number of handlers that are suspended at an await at one time.
MaxRunning == 1

\* The number of fetchTasks calls of the view that are in flight at one
\* time, of changes of the server, and of connection errors.
MaxFetches == 2
MaxVersion == 2
MaxErrors == 2

\* ------------------------------------------------------------- constants
PassScore == 80

PENDING == "pending"

IN_PROGRESS_asBlocked == "blocked"

IN_PROGRESS == "in_progress"

COMPLETED == "completed"
BLOCKED == "blocked"

TaskStatus == {PENDING, IN_PROGRESS, COMPLETED, BLOCKED}

\* An optional field is the empty sequence when absent and a one-element
\* sequence when present.
Absent == <<>>

Some(x) == <<x>>

\* ------------------------------------------------------- generic helpers
Range(s) == {s[i] : i \in 1..Len(s)}

RECURSIVE SeqConcat(_)
SeqConcat(ss) == IF ss = <<>> THEN <<>> ELSE Head(ss) \o SeqConcat(Tail(ss))

\* The indices of s, in order, whose element satisfies Test.
Indices(s, Test(_)) == SelectSeq([i \in 1..Len(s) |-> i], LAMBDA i : Test(s[i]))

\* Drops every element that already occurred earlier in the sequence.
Dedupe(s) ==
    SeqConcat([i \in 1..Len(s) |->
        IF \E j \in 1..(i - 1) : s[j] = s[i] THEN <<>> ELSE <<s[i]>>])

\* ---------------------------------------------------------------- state
VARIABLES
    tasks,      \* the durable task set, in file order
    backups,    \* the backup snapshots written so far, oldest first
    nextId,     \* the number of ids handed out so far, plus one
    clock,      \* the last timestamp read
    last,       \* the last tool call and its response
    running,    \* the handlers that are suspended at an await
    view        \* the live view: its snapshot, fetches and event sources

vars == <<tasks, backups, nextId, clock, last, running, view>>

Ids == {ToString(n) : n \in 1..MaxId}

\* The live view before its page has loaded: no snapshot, no fetch in
\* flight, no EventSource and no reconnection timer.  held and version
\* number the server states: the one the snapshot was taken from and the
\* current one; missed tells that a change of the server has not led to a
\* completed fetch (no open connection, a lost event or a failed fetch).
NoView ==
    [tasks |-> <<>>, held |-> 0, version |-> 0, fetches |-> <<>>,
     connecting |-> 0, open |-> 0, timers |-> 0, events |-> 0, errors |-> 0,
     missed |-> FALSE]

\* ------------------------------------------------------ the task model
\* The length of the strings the model uses.
StrLen(s) ==
    CASE s = "" -> 0
      [] s = "short" -> 5
      [] s = "file" -> 4
      [] s = "src/a.ts" -> 8
      [] s = "src/b.ts" -> 8
      [] s = "TO_MODIFY" -> 9
      [] s = "REFERENCE" -> 9
      [] s = "CREATE" -> 6
      [] s = "DEPENDENCY" -> 10
      [] s = "OTHER" -> 5
      [] s = "len200" -> 200
      [] s = "len201" -> 201
      [] s = "len500" -> 500
      [] s = "len501" -> 501
      [] s = "len1000" -> 1000
      [] s = "len1001" -> 1001
      [] s = "len2000" -> 2000
      [] s = "len2001" -> 2001
      [] OTHER -> 30

\* getTaskById: the task with that id, or nothing.
getTaskById(ts, taskId) ==
    LET hits == SelectSeq(ts, LAMBDA t : t.id = taskId)
    IN  IF hits = <<>> THEN Absent ELSE Some(Head(hits))

IsCompletedId_never(ts, depId) == FALSE

IsCompletedId(ts, depId) ==
    \E i \in 1..Len(ts) : ts[i].id = depId /\ ts[i].status = COMPLETED

\* canExecuteTask: the execution gate.  Executable iff every dependency is
\* a completed task; blockedBy lists the others in dependency-list order.
canExecuteTask(ts, taskId) ==
    LET found == getTaskById(ts, taskId)
        blocked == IF found = Absent THEN <<>>
                   ELSE SelectSeq(found[1].dependencies,
                                  LAMBDA d : ~IsCompletedId(ts, d))
    IN  [canExecute |-> found # Absent /\ blocked = <<>>,
         blockedBy  |-> blocked]

updateTaskStatus_keepsUpdatedAt(ts, taskId, status, now) ==
    [i \in 1..Len(ts) |->
        IF ts[i].id # taskId THEN ts[i]
        ELSE IF status = COMPLETED
             THEN [ts[i] EXCEPT !.status = status,
                                !.completedAt = Some(now)]
             ELSE [ts[i] EXCEPT !.status = status]]

\* updateTaskStatus: stores the status and refreshes updatedAt; a
\* transition to completed also sets completedAt.
updateTaskStatus(ts, taskId, status, now) ==
    [i \in 1..Len(ts) |->
        IF ts[i].id # taskId THEN ts[i]
        ELSE IF status = COMPLETED
             THEN [ts[i] EXCEPT !.status = status, !.updatedAt = now,
                                !.completedAt = Some(now)]
             ELSE [ts[i] EXCEPT !.status = status, !.updatedAt = now]]

\* updateTaskSummary: stores the summary and refreshes updatedAt.
updateTaskSummary(ts, taskId, summary, now) ==
    [i \in 1..Len(ts) |->
        IF ts[i].id # taskId THEN ts[i]
        ELSE [ts[i] EXCEPT !.summary = Some(summary), !.updatedAt = now]]

\* searchTasksWithCommand with an id: the tasks with that id, one page of
\* one task.
searchTasksWithCommand(ts, taskId) ==
    LET hits == SelectSeq(ts, LAMBDA t : t.id = taskId)
    IN  IF hits = <<>> THEN <<>> ELSE <<Head(hits)>>

\* getTaskDetail: the task read back by id, or nothing.
getTaskDetail(ts, taskId) ==
    LET result == searchTasksWithCommand(ts, taskId)
    IN  IF Len(result) = 0 THEN Absent ELSE Some(result[1])

TaskComplexityLevel ==
    [LOW |-> "low_complexity", MEDIUM |-> "medium_complexity",
     HIGH |-> "high_complexity", VERY_HIGH |-> "very_high_complexity"]

TaskComplexityThresholds ==
    [DESCRIPTION_LENGTH |-> [MEDIUM |-> 500, HIGH |-> 1000, VERY_HIGH |-> 2000],
     DEPENDENCIES_COUNT |-> [MEDIUM |-> 2, HIGH |-> 5, VERY_HIGH |-> 10],
     NOTES_LENGTH |-> [MEDIUM |-> 200, HIGH |-> 500, VERY_HIGH |-> 1000]]

Exceeds_orEqual(x, threshold) == x >= threshold

\* A metric reaches a tier when it is strictly greater than the threshold.
Exceeds(x, threshold) == x > threshold

\* The tier a metric reaches: 0 low, 1 medium, 2 high, 3 very high.
MetricTier(x, thresholds) ==
    IF Exceeds(x, thresholds.VERY_HIGH) THEN 3
    ELSE IF Exceeds(x, thresholds.HIGH) THEN 2
    ELSE IF Exceeds(x, thresholds.MEDIUM) THEN 1
    ELSE 0

\* assessTaskComplexity: the metrics of the task with that id and the
\* highest tier any of them reaches; absent notes count as 0.
assessTaskComplexity(ts, taskId) ==
    LET found == getTaskById(ts, taskId)
        task == found[1]
        descriptionLength == StrLen(task.description)
        dependenciesCount == Len(task.dependencies)
        notesLength == IF task.notes = Absent THEN 0
                       ELSE StrLen(task.notes[1])
        tiers == { MetricTier(descriptionLength,
                              TaskComplexityThresholds.DESCRIPTION_LENGTH),
                   MetricTier(dependenciesCount,
                              TaskComplexityThresholds.DEPENDENCIES_COUNT),
                   MetricTier(notesLength,
                              TaskComplexityThresholds.NOTES_LENGTH) }
    IN  IF found = Absent THEN Absent
        ELSE Some([level |-> IF 3 \in tiers
                             THEN TaskComplexityLevel.VERY_HIGH
                             ELSE IF 2 \in tiers
                             THEN TaskComplexityLevel.HIGH
                             ELSE IF 1 \in tiers
                             THEN TaskComplexityLevel.MEDIUM
                             ELSE TaskComplexityLevel.LOW,
                   metrics |-> [descriptionLength |-> descriptionLength,
                                dependenciesCount |-> dependenciesCount,
                                notesLength |-> notesLength,
                                hasNotes |-> task.notes # Absent]])

\* ------------------------------------------------------------ tool calls
\* The fields updateTaskContent takes, none of them supplied.
NoUpdates ==
    [name |-> Absent, description |-> Absent, notes |-> Absent,
     dependencies |-> Absent, relatedFiles |-> Absent,
     implementationGuide |-> Absent, verificationCriteria |-> Absent]

\* The record of a tool call: the arguments that select its case, its
\* response, the ids it created or updated and removed, and the durable
\* state it started from.
Call(op, taskId, score, mode, raw, resp, success, file, created, removed, text) ==
    [op |-> op, taskId |-> taskId, score |-> score, blockedByTasksText |-> text,
     updateMode |-> mode, tasksRaw |-> raw, resp |-> resp,
     success |-> success, backupFilePath |-> file,
     createdIds |-> created, removedIds |-> removed,
     preTasks |-> tasks, preBackups |-> backups, preNextId |-> nextId,
     updates |-> NoUpdates, message |-> Absent,
     globalAnalysisResult |-> Absent, complexityAssessment |-> Absent,
     args |-> Absent, returned |-> Absent]

\* Text that is not JSON; also stands for "no batch" in the record of a
\* call that takes none.
Malformed == [wellFormed |-> FALSE, tasks |-> <<>>]

Parsed(batch) == [wellFormed |-> TRUE, tasks |-> batch]

TaskIds(ts) == {ts[i].id : i \in 1..Len(ts)}

\* The timestamps a call may read: the clock has advanced or it has not.
Nows == {t \in {clock, clock + 1} : t <= MaxClock}

\* A call that changes nothing but its response.
Respond(call) ==
    /\ last' = call
    /\ UNCHANGED <<view, tasks, backups, nextId, clock, running>>

\* The complexity executeTask reports: the level and two of the metrics.
complexityAssessment(complexityResult) ==
    IF complexityResult = Absent THEN Absent
    ELSE Some([level |-> complexityResult[1].level,
               metrics |->
                  [descriptionLength |->
                      complexityResult[1].metrics.descriptionLength,
                   dependenciesCount |->
                      complexityResult[1].metrics.dependenciesCount]])

\* The guards of executeTask, in the order the handler tests them.
blockedByTasksText_firstOnly(executionCheck) ==
    IF executionCheck.blockedBy # <<>>
    THEN <<Head(executionCheck.blockedBy)>>
    ELSE <<"Unable to determine blocking reason">>

\* The blocking tasks a refusal names: the whole blockedBy list of the gate.
blockedByTasksText(executionCheck) ==
    IF executionCheck.blockedBy # <<>>
    THEN executionCheck.blockedBy
    ELSE <<"Unable to determine blocking reason">>

GateRefuses_never(executionCheck) == FALSE

GateRefuses(executionCheck) == ~executionCheck.canExecute

IsAlreadyInProgress(task) == task.status = IN_PROGRESS

IsAlreadyCompleted_never(task) == FALSE

IsAlreadyCompleted(task) == task.status = COMPLETED

executeTask(taskId) ==
    LET found == getTaskById(tasks, taskId)
        executionCheck == canExecuteTask(tasks, taskId)
        R(resp) == Call("executeTask", taskId, 0, "", Malformed, resp,
                        resp = "started", Absent, <<>>, {},
                        IF resp = "blocked"
                        THEN blockedByTasksText(executionCheck) ELSE <<>>)
    IN  IF found = Absent THEN Respond(R("not_found"))
        ELSE IF GateRefuses(executionCheck) THEN Respond(R("blocked"))
        ELSE IF IsAlreadyInProgress(found[1])
             THEN Respond(R("already_in_progress"))
        ELSE IF IsAlreadyCompleted(found[1])
             THEN Respond(R("already_completed"))
        ELSE \E now \in Nows :
                \E started \in {updateTaskStatus(tasks, taskId, IN_PROGRESS,
                                                  now)} :
                \E complexityResult \in {assessTaskComplexity(started,
                                                               taskId)} :
                    /\ tasks' = started
                    /\ clock' = now
                    /\ last' = [R("started") EXCEPT
                                   !.complexityAssessment =
                                      complexityAssessment(complexityResult)]
                    /\ UNCHANGED <<view, backups, nextId, running>>

\* The guards of verifyTask.
IsNotInProgress_onlyCompleted(task) == task.status = COMPLETED

IsNotInProgress_onlyPending(task) == task.status = PENDING

IsNotInProgress(task) == task.status # IN_PROGRESS

Passes_strict(score) == score > PassScore

Passes_always(score) == TRUE

Passes(score) == score >= PassScore

verifyTask(taskId, summary, score) ==
    LET found == getTaskById(tasks, taskId)
        R(resp) == Call("verifyTask", taskId, score, "", Malformed, resp,
                        resp = "verified", Absent, <<>>, {}, <<>>)
    IN  IF found = Absent THEN Respond(R("not_found"))
        ELSE IF IsNotInProgress(found[1])
             THEN Respond(R("status_error"))
        ELSE IF Passes(score)
             THEN \E now \in Nows :
                    /\ tasks' = updateTaskStatus(
                                    updateTaskSummary(tasks, taskId, summary, now),
                                    taskId, COMPLETED, now)
                    /\ clock' = now
                    /\ last' = R("verified")
                    /\ UNCHANGED <<view, backups, nextId, running>>
        ELSE Respond(R("verified"))

\* ---------------------------------------------------- updateTaskContent
\* JavaScript truthiness of an optional string, number or array: an absent
\* value, an empty string and 0 are falsy; an array is truthy even when it
\* is empty.
TruthyString(opt) == opt # Absent /\ opt[1] # ""

TruthyNumber(opt) == opt # Absent /\ opt[1] # 0

TruthyArray(opt) == opt # Absent

InvalidLineRange_orderOnly(file) ==
    /\ TruthyNumber(file.lineStart)
    /\ TruthyNumber(file.lineEnd)
    /\ file.lineStart[1] > file.lineEnd[1]

\* The line-range test of updateTaskContent: one bound without the other,
\* or a start after the end.
InvalidLineRange(file) ==
    \/ TruthyNumber(file.lineStart) /\ ~TruthyNumber(file.lineEnd)
    \/ ~TruthyNumber(file.lineStart) /\ TruthyNumber(file.lineEnd)
    \/ /\ TruthyNumber(file.lineStart)
       /\ TruthyNumber(file.lineEnd)
       /\ file.lineStart[1] > file.lineEnd[1]

IsEmptyUpdate_never(updates) == FALSE

\* The empty-update test: no field with a truthy value.
IsEmptyUpdate(updates) ==
    ~(\/ TruthyString(updates.name)
      \/ TruthyString(updates.description)
      \/ TruthyString(updates.notes)
      \/ TruthyArray(updates.dependencies)
      \/ TruthyString(updates.implementationGuide)
      \/ TruthyString(updates.verificationCriteria)
      \/ TruthyArray(updates.relatedFiles))

passedUpdates_notesFromDescription(updates) ==
    [updates EXCEPT !.notes = updates.description]

\* The fields the handler hands to the task model: the ones it was given.
passedUpdates(updates) ==
    [name |-> updates.name, description |-> updates.description,
     notes |-> updates.notes, relatedFiles |-> updates.relatedFiles,
     dependencies |-> updates.dependencies,
     implementationGuide |-> updates.implementationGuide,
     verificationCriteria |-> updates.verificationCriteria]

\* updateTaskContent of the task model: every supplied field replaces the
\* stored one as a whole, the others stay, updatedAt is refreshed.
modelUpdateTaskContent(ts, taskId, updates, now) ==
    LET Updated(t) ==
            [t EXCEPT
                !.name = IF updates.name = Absent THEN @ ELSE updates.name[1],
                !.description = IF updates.description = Absent THEN @
                                ELSE updates.description[1],
                !.notes = IF updates.notes = Absent THEN @ ELSE updates.notes,
                !.dependencies = IF updates.dependencies = Absent THEN @
                                 ELSE updates.dependencies[1],
                !.relatedFiles = IF updates.relatedFiles = Absent THEN @
                                 ELSE updates.relatedFiles,
                !.implementationGuide =
                    IF updates.implementationGuide = Absent THEN @
                    ELSE updates.implementationGuide[1],
                !.verificationCriteria =
                    IF updates.verificationCriteria = Absent THEN @
                    ELSE updates.verificationCriteria,
                !.updatedAt = now]
    IN  [success |-> TRUE,
         tasks |-> [i \in 1..Len(ts) |->
                      IF ts[i].id = taskId THEN Updated(ts[i]) ELSE ts[i]]]

updateTaskContent(taskId, updates) ==
    LET found == getTaskById(tasks, taskId)
        R(resp, success) ==
            [Call("updateTaskContent", taskId, 0, "", Malformed, resp,
                  success, Absent, <<>>, {}, <<>>)
                EXCEPT !.updates = updates]
    IN  IF /\ updates.relatedFiles # Absent
           /\ \E f \in 1..Len(updates.relatedFiles[1]) :
                 InvalidLineRange(updates.relatedFiles[1][f])
        THEN Respond(R("validation_error", FALSE))
        ELSE IF IsEmptyUpdate(updates)
        THEN Respond(R("empty_update", FALSE))
        ELSE IF found = Absent THEN Respond(R("not_found", FALSE))
        ELSE \E now \in Nows :
                LET result == modelUpdateTaskContent(
                                  tasks, taskId, passedUpdates(updates), now)
                IN  /\ tasks' = result.tasks
                    /\ clock' = now
                    /\ last' = R("updated", result.success)
                    /\ UNCHANGED <<view, backups, nextId, running>>

\* ------------------------------------------------- batch reconciliation
NameMaxLen == 100
DescriptionMinLen == 10

\* An incoming task as the caller writes it.
RawTask(name, text, deps) ==
    [name |-> name, description |-> text, notes |-> Some(text),
     dependencies |-> deps, implementationGuide |-> text,
     verificationCriteria |-> Some(text), relatedFiles |-> Absent]

RelatedFileType == {"TO_MODIFY", "REFERENCE", "CREATE", "DEPENDENCY", "OTHER"}

\* A related file as the caller writes it; the line bounds are optional.
RelatedFile(path, lineStart, lineEnd) ==
    [path |-> path, type |-> "TO_MODIFY", description |-> "file",
     lineStart |-> lineStart, lineEnd |-> lineEnd]

\* An incoming task with related files.
RawTaskWithFiles(name, text, deps, files) ==
    [RawTask(name, text, deps) EXCEPT !.relatedFiles = Some(files)]

\* The schema of one related file: a path and a description that are not
\* empty, a known type, and line bounds that are positive when given.
relatedFileSchema(file) ==
    /\ StrLen(file.path) >= 1
    /\ file.type \in RelatedFileType
    /\ StrLen(file.description) >= 1
    /\ file.lineStart # Absent => file.lineStart[1] > 0
    /\ file.lineEnd # Absent => file.lineEnd[1] > 0

tasksSchema_acceptsAll(batch) == TRUE

\* tasksSchema: at least one task, each with a name of at most 100
\* characters and a description of at least 10.
tasksSchema(batch) ==
    /\ Len(batch) >= 1
    /\ \A i \in 1..Len(batch) :
          /\ StrLen(batch[i].name) <= NameMaxLen
          /\ StrLen(batch[i].description) >= DescriptionMinLen
          /\ batch[i].relatedFiles # Absent
                => \A f \in 1..Len(batch[i].relatedFiles[1]) :
                      relatedFileSchema(batch[i].relatedFiles[1][f])

HasDuplicateNames_never(batch) == FALSE

\* The name check of splitTasksRaw: some name occurs twice in the batch.
HasDuplicateNames(batch) ==
    \E i, j \in 1..Len(batch) : i < j /\ batch[i].name = batch[j].name

\* The related files of an incoming task, field by field.
convertedFiles(relatedFiles) ==
    IF relatedFiles = Absent THEN Absent
    ELSE Some([f \in 1..Len(relatedFiles[1]) |->
                 [path |-> relatedFiles[1][f].path,
                  type |-> relatedFiles[1][f].type,
                  description |-> relatedFiles[1][f].description,
                  lineStart |-> relatedFiles[1][f].lineStart,
                  lineEnd |-> relatedFiles[1][f].lineEnd]])

convertedTasks_dropsDependencies(batch) ==
    [i \in 1..Len(batch) |->
        [name |-> batch[i].name,
         description |-> batch[i].description,
         notes |-> batch[i].notes,
         dependencies |-> <<>>,
         implementationGuide |-> batch[i].implementationGuide,
         verificationCriteria |-> batch[i].verificationCriteria,
         relatedFiles |-> convertedFiles(batch[i].relatedFiles)]]

convertedTasks_dropsNotes(batch) ==
    [i \in 1..Len(batch) |->
        [name |-> batch[i].name,
         description |-> batch[i].description,
         notes |-> Absent,
         dependencies |-> batch[i].dependencies,
         implementationGuide |-> batch[i].implementationGuide,
         verificationCriteria |-> batch[i].verificationCriteria,
         relatedFiles |-> convertedFiles(batch[i].relatedFiles)]]

\* convertedTasks: the incoming tasks in the format of the task model.
convertedTasks(batch) ==
    [i \in 1..Len(batch) |->
        [name |-> batch[i].name,
         description |-> batch[i].description,
         notes |-> batch[i].notes,
         dependencies |-> batch[i].dependencies,
         implementationGuide |-> batch[i].implementationGuide,
         verificationCriteria |-> batch[i].verificationCriteria,
         relatedFiles |-> convertedFiles(batch[i].relatedFiles)]]

\* The existing tasks a mode keeps: overwrite keeps the completed ones,
\* append and selective keep them all.
SurvivingTasks(ts, mode) ==
    IF mode = "overwrite" THEN SelectSeq(ts, LAMBDA t : t.status = COMPLETED)
    ELSE ts

\* The position in keep of the existing task an incoming task updates in
\* place (selective mode, first match by name), or 0 when it is created.
MatchIndex(keep, mode, raw) ==
    LET hits == Indices(keep, LAMBDA t : t.name = raw.name)
    IN  IF mode = "selective" /\ hits # <<>> THEN Head(hits) ELSE 0

\* A freshly created task.
NewTask(id, raw, deps, gar, now) ==
    [id |-> id, name |-> raw.name, description |-> raw.description,
     notes |-> raw.notes, status |-> PENDING, dependencies |-> deps,
     createdAt |-> now, updatedAt |-> now, completedAt |-> Absent,
     summary |-> Absent, relatedFiles |-> raw.relatedFiles,
     analysisResult |-> gar,
     implementationGuide |-> raw.implementationGuide,
     verificationCriteria |-> raw.verificationCriteria]

UpdatedTask_overwritesAnalysis(old, raw, deps, gar) ==
    [old EXCEPT !.name = raw.name, !.description = raw.description,
                !.notes = raw.notes, !.dependencies = deps,
                !.relatedFiles = raw.relatedFiles,
                !.implementationGuide = raw.implementationGuide,
                !.verificationCriteria = raw.verificationCriteria,
                !.analysisResult = gar]

\* An existing task updated in place: content fields replaced, id, status
\* and timestamps kept, the analysis result set only when there is none.
UpdatedTask(old, raw, deps, gar) ==
    [old EXCEPT !.name = raw.name, !.description = raw.description,
                !.notes = raw.notes, !.dependencies = deps,
                !.relatedFiles = raw.relatedFiles,
                !.implementationGuide = raw.implementationGuide,
                !.verificationCriteria = raw.verificationCriteria,
                !.analysisResult =
                    IF old.analysisResult = Absent THEN gar
                    ELSE old.analysisResult]

\* The id of the i-th incoming task: the id of the task it updates, or the
\* next fresh id.
BatchId(keep, converted, mode, nid, i) ==
    LET m == MatchIndex(keep, mode, converted[i])
        rank == Cardinality({j \in 1..i :
                                MatchIndex(keep, mode, converted[j]) = 0})
    IN  IF m # 0 THEN keep[m].id ELSE ToString(nid + rank - 1)

\* resolveDependencies for one token: an exact id first, then an exact
\* name, the incoming batch before the durable set.  Nothing when no task
\* matches.
ResolveToken(keep, converted, mode, nid, tok) ==
    LET byBatchName == Indices(converted, LAMBDA r : r.name = tok)
        byKeepName == Indices(keep, LAMBDA t : t.name = tok)
    IN  IF \/ \E k \in 1..Len(keep) : keep[k].id = tok
           \/ \E j \in 1..Len(converted) :
                 BatchId(keep, converted, mode, nid, j) = tok
        THEN Some(tok)
        ELSE IF byBatchName # <<>>
             THEN Some(BatchId(keep, converted, mode, nid, Head(byBatchName)))
        ELSE IF byKeepName # <<>> THEN Some(keep[Head(byKeepName)].id)
        ELSE Absent

\* batchCreateOrUpdateTasks: the new durable set of a mode, the tasks it
\* created or updated, or a failure that leaves the set as it was and
\* names the first token that no task matches.
batchCreateOrUpdateTasks(ts, converted, mode, gar, now, nid) ==
    LET keep == SurvivingTasks(ts, mode)
        n == Len(converted)
        Resolved(i) ==
            [d \in 1..Len(converted[i].dependencies) |->
                ResolveToken(keep, converted, mode, nid,
                             converted[i].dependencies[d])]
        ok == \A i \in 1..n : \A d \in 1..Len(Resolved(i)) :
                 Resolved(i)[d] # Absent
        unresolved ==
            SeqConcat([i \in 1..n |->
                SelectSeq(converted[i].dependencies,
                          LAMBDA tok : ResolveToken(keep, converted, mode,
                                                    nid, tok) = Absent)])
        Deps(i) == Dedupe(SeqConcat(Resolved(i)))
        Built(i) ==
            LET m == MatchIndex(keep, mode, converted[i])
            IN  IF m # 0
                THEN UpdatedTask(keep[m], converted[i], Deps(i), gar)
                ELSE NewTask(BatchId(keep, converted, mode, nid, i),
                             converted[i], Deps(i), gar, now)
        kept ==
            [k \in 1..Len(keep) |->
                LET hit == {i \in 1..n :
                               MatchIndex(keep, mode, converted[i]) = k}
                IN  IF hit = {} THEN keep[k]
                    ELSE Built(CHOOSE i \in hit : \A j \in hit : i <= j)]
        fresh == Indices(converted,
                         LAMBDA r : MatchIndex(keep, mode, r) = 0)
    IN  IF ok
        THEN [ok |-> TRUE,
              tasks |-> kept \o [f \in 1..Len(fresh) |-> Built(fresh[f])],
              created |-> [i \in 1..n |-> Built(i)],
              nextId |-> nid + Len(fresh),
              error |-> Absent]
        ELSE [ok |-> FALSE, tasks |-> ts, created |-> <<>>, nextId |-> nid,
              error |-> Some(Head(unresolved))]

\* clearAllTasks of the task model: the whole durable set goes to a backup,
\* then the set is emptied.
modelClearAllTasks(ts, bs, now) ==
    [success |-> TRUE,
     tasks |-> <<>>,
     backups |-> Append(bs, [at |-> now, tasks |-> ts]),
     backupFile |-> Some(Len(bs) + 1)]

\* clearAllTasks of the task model when the backup or the write fails:
\* nothing is written and the durable set stays.
modelClearAllTasksFailed(ts, bs) ==
    [success |-> FALSE, tasks |-> ts, backups |-> bs, backupFile |-> Absent]

\* ------------------------------------------------------- splitTasksRaw
UpdateModes == {"append", "overwrite", "selective", "clearAllTasks"}

\* The mode splitTasksRaw hands to batchCreateOrUpdateTasks: after a clear
\* the batch is appended, every other mode is passed on as it is.
ClearsFirst_notAppend(updateMode) == updateMode # "append"

ClearsFirst_never(updateMode) == FALSE

ClearsFirst_orOverwrite(updateMode) ==
    updateMode \in {"clearAllTasks", "overwrite"}

\* The mode test of splitTasksRaw: only clearAllTasks clears the set first.
ClearsFirst(updateMode) == updateMode = "clearAllTasks"

createMode_append(updateMode) == "append"

createMode_selective(updateMode) ==
    IF updateMode = "clearAllTasks" THEN "append" ELSE "selective"

createMode_appendOverwrites(updateMode) ==
    IF updateMode \in {"clearAllTasks", "append"} THEN "overwrite"
    ELSE updateMode

createMode(updateMode) ==
    IF updateMode = "clearAllTasks" THEN "append" ELSE updateMode

actionSuccess_ignoresCreate(clearOk, createOk) == clearOk

\* actionSuccess: true until the clear or the creation fails.
actionSuccess(clearOk, createOk) == clearOk /\ createOk

splitTasksRaw(updateMode, tasksRaw, globalAnalysisResult) ==
    LET batch == tasksRaw.tasks
        R(resp, success, backupFile, created, after) ==
            [Call("splitTasksRaw", "", 0, updateMode, tasksRaw, resp, success,
                  backupFile, [i \in 1..Len(created) |-> created[i].id],
                  TaskIds(tasks) \ TaskIds(after), <<>>)
                EXCEPT !.globalAnalysisResult = globalAnalysisResult]
    IN  IF ~tasksRaw.wellFormed
        THEN Respond(R("parse_error", FALSE, Absent, <<>>, tasks))
        ELSE IF ~tasksSchema(batch)
        THEN Respond(R("schema_error", FALSE, Absent, <<>>, tasks))
        ELSE IF HasDuplicateNames(batch)
        THEN Respond(R("duplicate_names", FALSE, Absent, <<>>, tasks))
        ELSE \E now \in Nows :
            IF ClearsFirst(updateMode)
            THEN \E clearResult \in
                        {modelClearAllTasks(tasks, backups, now),
                         modelClearAllTasksFailed(tasks, backups)} :
                 LET r == batchCreateOrUpdateTasks(
                              clearResult.tasks, convertedTasks(batch),
                              createMode(updateMode), globalAnalysisResult,
                              now, nextId)
                 IN  IF ~clearResult.success
                     THEN Respond(R("result", actionSuccess(FALSE, FALSE),
                                    clearResult.backupFile, <<>>, tasks))
                     ELSE
                     /\ Len(backups) < MaxBackups
                     /\ r.nextId <= MaxId + 1
                     /\ tasks' = r.tasks
                     /\ backups' = clearResult.backups
                     /\ nextId' = r.nextId
                     /\ clock' = now
                     /\ last' = [R("result", actionSuccess(TRUE, r.ok),
                                    clearResult.backupFile, r.created,
                                    r.tasks)
                                    EXCEPT !.message = r.error]
                     /\ UNCHANGED <<view, running>>
            ELSE LET r == batchCreateOrUpdateTasks(
                              tasks, convertedTasks(batch),
                              createMode(updateMode), globalAnalysisResult,
                              now, nextId)
                 IN  /\ r.nextId <= MaxId + 1
                     /\ tasks' = r.tasks
                     /\ nextId' = r.nextId
                     /\ clock' = IF r.ok THEN now ELSE clock
                     /\ last' = [R("result", actionSuccess(TRUE, r.ok),
                                    Absent, r.created, r.tasks)
                                    EXCEPT !.message = r.error]
                     /\ UNCHANGED <<view, backups, running>>

\* ------------------------------------------------------------- inputs
Names == {"A", "B"}

Scores == {79, 80}

Summaries == {"summary"}

AnalysisResults == {Some("g1")}

\* The batches the calls are drawn from: one task, two tasks with a
\* dependency by name on the earlier one, two tasks in another wording with
\* a dependency on the later one, a repeated name, one task that depends
\* on A by name (which resolves only when the store holds an A), an empty
\* list, a description that is too short, and text that is not JSON.
TasksRawInputs ==
    { Parsed(<<RawTask("A", "t1", <<>>)>>),
      Parsed(<<RawTask("A", "t2", <<"B">>), RawTask("B", "t1", <<>>)>>),
      Parsed(<<RawTask("A", "t1", <<>>), RawTask("B", "t1", <<"A">>)>>),
      Parsed(<<RawTask("A", "t1", <<>>), RawTask("A", "t2", <<>>)>>),
      Parsed(<<RawTask("B", "t1", <<"A">>)>>),
      Parsed(<<>>),
      Parsed(<<RawTask("A", "short", <<>>)>>),
      Malformed }

\* ------------------------------------------------------- specification
Init ==
    /\ tasks = <<>>
    /\ backups = <<>>
    /\ nextId = 1
    /\ clock = 1
    /\ running = {}
    /\ view = NoView
    /\ last = Call("none", "", 0, "", Malformed, "none", FALSE, Absent,
                    <<>>, {}, <<>>)

Next ==
    \/ \E taskId \in Ids : executeTask(taskId)
    \/ \E taskId \in Ids, summary \in Summaries, score \in Scores :
          verifyTask(taskId, summary, score)
    \/ \E updateMode \in UpdateModes, tasksRaw \in TasksRawInputs,
          gar \in AnalysisResults :
          splitTasksRaw(updateMode, tasksRaw, gar)

Spec == Init /\ [][Next]_vars

\* ------------------------------------------------- the gate on its own
\* The execution gate applied to stores of three tasks: A and B without
\* dependencies, and C in any stored status with a dependency list over A,
\* B and an id that no task has.
GateIds == {"1", "2", "3"}

GateDependencies ==
    { <<>>, <<"1">>, <<"1", "2">>, <<"2", "1">>, <<"9", "1">>, <<"9">> }

GateTask(id, name, deps, status) ==
    LET t == NewTask(id, RawTask(name, "t1", <<>>), deps, Absent, 1)
    IN  IF status = COMPLETED
        THEN [t EXCEPT !.status = status, !.completedAt = Some(1),
                       !.summary = Some("summary")]
        ELSE [t EXCEPT !.status = status]

GateStores ==
    { <<GateTask("1", "A", <<>>, PENDING), GateTask("2", "B", <<>>, PENDING),
        GateTask("3", "C", deps, status)>> :
        deps \in GateDependencies,
        status \in {PENDING, IN_PROGRESS, COMPLETED} }

InitGate ==
    /\ tasks \in GateStores
    /\ backups = <<>>
    /\ nextId = 4
    /\ clock = 1
    /\ running = {}
    /\ view = NoView
    /\ last = Call("none", "", 0, "", Malformed, "none", FALSE, Absent,
                    <<>>, {}, <<>>)

NextGate ==
    \/ \E taskId \in GateIds : executeTask(taskId)
    \/ \E taskId \in GateIds, summary \in Summaries, score \in Scores :
          verifyTask(taskId, summary, score)

SpecGate == InitGate /\ [][NextGate]_vars

\* ------------------------------------------------- content on its own
\* Batches and content updates that carry related files and names of every
\* shape: a line range in order, a start without an end, an end without a
\* start, a start after the end, and an empty name.
FileInOrder == RelatedFile("src/a.ts", Some(1), Some(3))

FileStartOnly == RelatedFile("src/a.ts", Some(3), Absent)

FileEndOnly == RelatedFile("src/a.ts", Absent, Some(3))

FileReversed == RelatedFile("src/a.ts", Some(3), Some(1))

FileUnbounded == RelatedFile("src/b.ts", Absent, Absent)

ContentTasksRawInputs ==
    { Parsed(<<RawTaskWithFiles("A", "t1", <<>>, <<FileInOrder>>)>>),
      Parsed(<<RawTaskWithFiles("B", "t1", <<"A">>, <<FileUnbounded>>)>>),
      Parsed(<<RawTaskWithFiles("A", "t2", <<>>, <<FileStartOnly>>)>>),
      Parsed(<<RawTaskWithFiles("B", "t2", <<>>,
                                <<FileInOrder, FileReversed>>)>>),
      Parsed(<<RawTask("", "t1", <<>>)>>),
      Parsed(<<RawTaskWithFiles("A", "t1", <<>>,
                                <<RelatedFile("", Some(1), Some(3))>>)>>),
      Parsed(<<RawTaskWithFiles("A", "t1", <<>>,
                                <<RelatedFile("src/a.ts", Some(0), Some(3))>>)>>) }

ContentModes == {"append", "selective"}

InitFiles ==
    /\ tasks = <<>>
    /\ backups = <<>>
    /\ nextId = 1
    /\ clock = 1
    /\ running = {}
    /\ view = NoView
    /\ last = Call("none", "", 0, "", Malformed, "none", FALSE, Absent,
                    <<>>, {}, <<>>)

NextFiles ==
    \E updateMode \in ContentModes, tasksRaw \in ContentTasksRawInputs,
       gar \in AnalysisResults :
       splitTasksRaw(updateMode, tasksRaw, gar)

SpecFiles == InitFiles /\ [][NextFiles]_vars

\* Content updates on a store of two tasks, the first pending or
\* completed, the second in progress.  The updates: none, an empty name
\* alone, a name and a description, notes with guides and dependencies,
\* related files in order, and related files with a range of each invalid shape.
ContentUpdates ==
    { NoUpdates,
      [NoUpdates EXCEPT !.name = Some("")],
      [NoUpdates EXCEPT !.name = Some("C"), !.description = Some("t3")],
      [NoUpdates EXCEPT !.notes = Some("t3"),
                        !.implementationGuide = Some("t3"),
                        !.verificationCriteria = Some("t3"),
                        !.dependencies = Some(<<"1">>)],
      [NoUpdates EXCEPT !.relatedFiles = Some(<<FileInOrder, FileUnbounded>>)],
      [NoUpdates EXCEPT !.relatedFiles = Some(<<FileStartOnly>>)],
      [NoUpdates EXCEPT !.relatedFiles = Some(<<FileInOrder, FileEndOnly>>)],
      [NoUpdates EXCEPT !.name = Some("C"),
                        !.relatedFiles = Some(<<FileReversed>>)] }

ContentIds == {"1", "2", "9"}

ContentStores ==
    { <<GateTask("1", "A", <<>>, status),
        GateTask("2", "B", <<>>, IN_PROGRESS)>> :
        status \in {PENDING, COMPLETED} }

InitContent ==
    /\ tasks \in ContentStores
    /\ backups = <<>>
    /\ nextId = 3
    /\ clock = 1
    /\ running = {}
    /\ view = NoView
    /\ last = Call("none", "", 0, "", Malformed, "none", FALSE, Absent,
                    <<>>, {}, <<>>)

NextContent ==
    \E taskId \in ContentIds, updates \in ContentUpdates :
       updateTaskContent(taskId, updates)

SpecContent == InitContent /\ [][NextContent]_vars

\* --------------------------------------------- resolution on its own
\* Batches whose dependency tokens are ids and names, on an empty store
\* and on a store that holds a task A with the id "9", pending or
\* completed: a batch with a task named "9" and a task that depends on
\* "9", a batch that defines A again and a task that depends on "A", a
\* token that nothing matches, and two tokens for one task.
ResolveTasksRawInputs ==
    { Parsed(<<RawTask("9", "t1", <<>>), RawTask("B", "t1", <<"9">>)>>),
      Parsed(<<RawTask("A", "t2", <<>>), RawTask("B", "t1", <<"A">>)>>),
      Parsed(<<RawTask("B", "t1", <<"Z">>)>>),
      Parsed(<<RawTask("B", "t2", <<"A", "9">>)>>) }

ResolveAnalysisResults == {Some("g1"), Some("g2")}

ResolveModes == {"append", "overwrite", "selective"}

ResolveStores ==
    {<<>>} \cup { <<GateTask("9", "A", <<>>, status)>> :
                    status \in {PENDING, COMPLETED} }

InitResolve ==
    /\ tasks \in ResolveStores
    /\ backups = <<>>
    /\ nextId = 1
    /\ clock = 1
    /\ running = {}
    /\ view = NoView
    /\ last = Call("none", "", 0, "", Malformed, "none", FALSE, Absent,
                    <<>>, {}, <<>>)

NextResolve ==
    \E updateMode \in ResolveModes, tasksRaw \in ResolveTasksRawInputs,
       gar \in ResolveAnalysisResults :
       splitTasksRaw(updateMode, tasksRaw, gar)

SpecResolve == InitResolve /\ [][NextResolve]_vars

\* ------------------------------------------------ handlers step by step
\* executeTask and verifyTask as the runtime runs them: every await hands
\* control back, and another tool call may run before the handler goes on.
\* A suspended handler keeps the task it read at its first await.
Handler(op, taskId, pc, task, summary) ==
    [op |-> op, taskId |-> taskId, pc |-> pc, task |-> task,
     summary |-> summary]

Suspend(h) ==
    /\ Cardinality(running) < MaxRunning
    /\ h \notin running
    /\ running' = running \cup {h}
    /\ UNCHANGED <<view, tasks, backups, nextId, clock, last>>

\* executeTask up to canExecuteTask: the task is read by id.
executeTaskBegin(taskId) ==
    LET found == getTaskById(tasks, taskId)
    IN  IF found = Absent
        THEN Respond(Call("executeTask", taskId, 0, "", Malformed,
                          "not_found", FALSE, Absent, <<>>, {}, <<>>))
        ELSE Suspend(Handler("executeTask", taskId, "canExecuteTask",
                             found[1], ""))

\* executeTask from canExecuteTask to updateTaskStatus: the gate is asked
\* about the durable set as it is now, the status is the one read before.
executeTaskCheck(h) ==
    LET executionCheck == canExecuteTask(tasks, h.taskId)
        R(resp) == Call("executeTask", h.taskId, 0, "", Malformed, resp,
                        FALSE, Absent, <<>>, {},
                        IF resp = "blocked"
                        THEN blockedByTasksText(executionCheck) ELSE <<>>)
        Return(resp) ==
            /\ last' = R(resp)
            /\ running' = running \ {h}
            /\ UNCHANGED <<view, tasks, backups, nextId, clock>>
    IN  /\ h.op = "executeTask"
        /\ h.pc = "canExecuteTask"
        /\ IF GateRefuses(executionCheck) THEN Return("blocked")
           ELSE IF IsAlreadyInProgress(h.task)
           THEN Return("already_in_progress")
           ELSE IF IsAlreadyCompleted(h.task)
           THEN Return("already_completed")
           ELSE /\ running' = (running \ {h})
                                \cup {[h EXCEPT !.pc = "updateTaskStatus"]}
                /\ UNCHANGED <<view, tasks, backups, nextId, clock, last>>

\* executeTask at updateTaskStatus: in_progress is written.
executeTaskWrite(h) ==
    /\ h.op = "executeTask"
    /\ h.pc = "updateTaskStatus"
    /\ \E now \in Nows :
       \E started \in {updateTaskStatus(tasks, h.taskId, IN_PROGRESS, now)} :
       \E complexityResult \in {assessTaskComplexity(started, h.taskId)} :
          /\ tasks' = started
          /\ clock' = now
          /\ last' = [Call("executeTask", h.taskId, 0, "", Malformed,
                           "started", TRUE, Absent, <<>>, {}, <<>>)
                         EXCEPT !.complexityAssessment =
                            complexityAssessment(complexityResult)]
          /\ running' = running \ {h}
          /\ UNCHANGED <<view, backups, nextId>>

\* verifyTask up to updateTaskSummary: the task is read and tested.
verifyTaskBegin(taskId, summary, score) ==
    LET found == getTaskById(tasks, taskId)
        R(resp) == Call("verifyTask", taskId, score, "", Malformed, resp,
                        resp = "verified", Absent, <<>>, {}, <<>>)
    IN  IF found = Absent THEN Respond(R("not_found"))
        ELSE IF IsNotInProgress(found[1]) THEN Respond(R("status_error"))
        ELSE IF Passes(score)
        THEN Suspend(Handler("verifyTask", taskId, "updateTaskSummary",
                             found[1], summary))
        ELSE Respond(R("verified"))

\* verifyTask at updateTaskSummary: the summary is written.
verifyTaskSummary(h) ==
    /\ h.op = "verifyTask"
    /\ h.pc = "updateTaskSummary"
    /\ \E now \in Nows :
          /\ tasks' = updateTaskSummary(tasks, h.taskId, h.summary, now)
          /\ clock' = now
          /\ running' = (running \ {h})
                           \cup {[h EXCEPT !.pc = "updateTaskStatus"]}
          /\ UNCHANGED <<view, backups, nextId, last>>

\* verifyTask at updateTaskStatus: completed is written.
verifyTaskStatus(h) ==
    /\ h.op = "verifyTask"
    /\ h.pc = "updateTaskStatus"
    /\ \E now \in Nows :
          /\ tasks' = updateTaskStatus(tasks, h.taskId, COMPLETED, now)
          /\ clock' = now
          /\ last' = Call("verifyTask", h.taskId, PassScore, "", Malformed,
                          "verified", TRUE, Absent, <<>>, {}, <<>>)
          /\ running' = running \ {h}
          /\ UNCHANGED <<view, backups, nextId>>

\* verifyTask at updateTaskStatus when the write fails: the handler ends
\* with the error and nothing is written.
verifyTaskStatusFails(h) ==
    /\ h.op = "verifyTask"
    /\ h.pc = "updateTaskStatus"
    /\ last' = Call("verifyTask", h.taskId, PassScore, "", Malformed,
                    "error", FALSE, Absent, <<>>, {}, <<>>)
    /\ running' = running \ {h}
    /\ UNCHANGED <<view, tasks, backups, nextId, clock>>

\* Two pending tasks A and B, and the calls that may run between the steps
\* of a handler: a batch that makes A depend on B or replaces both, and a
\* content update that sets the dependencies of a task.
AsyncIds == {"8", "9"}

AsyncStore ==
    <<GateTask("8", "A", <<>>, PENDING), GateTask("9", "B", <<>>, PENDING)>>

AsyncTasksRaw ==
    Parsed(<<RawTask("A", "t2", <<"B">>), RawTask("B", "t1", <<>>)>>)

AsyncModes == {"selective", "overwrite"}

AsyncUpdates == [NoUpdates EXCEPT !.dependencies = Some(<<"9">>)]

InitAsync ==
    /\ tasks = AsyncStore
    /\ backups = <<>>
    /\ nextId = 1
    /\ clock = 1
    /\ running = {}
    /\ view = NoView
    /\ last = Call("none", "", 0, "", Malformed, "none", FALSE, Absent,
                    <<>>, {}, <<>>)

NextAsync ==
    \/ \E taskId \in AsyncIds : executeTaskBegin(taskId)
    \/ \E h \in running : executeTaskCheck(h)
    \/ \E h \in running : executeTaskWrite(h)
    \/ \E taskId \in AsyncIds, summary \in Summaries, score \in Scores :
          verifyTaskBegin(taskId, summary, score)
    \/ \E h \in running : verifyTaskSummary(h)
    \/ \E h \in running : verifyTaskStatus(h)
    \/ \E h \in running : verifyTaskStatusFails(h)
    \/ \E updateMode \in AsyncModes, gar \in AnalysisResults :
          splitTasksRaw(updateMode, AsyncTasksRaw, gar)
    \/ \E taskId \in AsyncIds : updateTaskContent(taskId, AsyncUpdates)

SpecAsync == InitAsync /\ [][NextAsync]_vars

\* ----------------------------------------------- complexity on its own
\* executeTask on a pending task whose description, notes and number of
\* dependencies sit at and just above every threshold; the dependencies
\* are completed tasks, so that the gate lets the task start.
ComplexityLengths ==
    {"t1", "len200", "len201", "len500", "len501", "len1000", "len1001",
     "len2000", "len2001"}

ComplexityCounts == {0, 2, 3, 5, 6, 10, 11}

ComplexityDependencies(n) == [d \in 1..n |-> ToString(d)]

ComplexityTask(description, notes, n) ==
    [GateTask("20", "T", ComplexityDependencies(n), PENDING)
        EXCEPT !.description = description, !.notes = notes]

ComplexityStores ==
    { [d \in 1..11 |-> GateTask(ToString(d), "D", <<>>, COMPLETED)]
         \o <<ComplexityTask(description, notes, n)>> :
         description \in ComplexityLengths,
         notes \in {Absent} \cup {Some(l) : l \in ComplexityLengths},
         n \in ComplexityCounts }

InitComplexity ==
    /\ tasks \in ComplexityStores
    /\ backups = <<>>
    /\ nextId = 21
    /\ clock = 1
    /\ running = {}
    /\ view = NoView
    /\ last = Call("none", "", 0, "", Malformed, "none", FALSE, Absent,
                    <<>>, {}, <<>>)

NextComplexity == executeTask("20")

SpecComplexity == InitComplexity /\ [][NextComplexity]_vars

\* ------------------------------------------------- loadTaskRelatedFiles
\* The number of decimal digits of a line number.
RECURSIVE Digits(_)
Digits(n) == IF n < 10 THEN 1 ELSE 1 + Digits(n \div 10)

\* Whether the file carries both line bounds (file.lineStart && file.lineEnd).
HasLineRange(file) ==
    TruthyNumber(file.lineStart) /\ TruthyNumber(file.lineEnd)

\* generateFileInfo, as the length of the text it builds: the "File: ",
\* "Type: ", "Description: ", "Line Range: " and "To view actual content,
\* please directly view the file: " lines, each ended by a line break.
generateFileInfo(file) ==
    6 + StrLen(file.path) + 1
    + 6 + StrLen(file.type) + 1
    + (IF file.description # ""
       THEN 13 + StrLen(file.description) + 1 ELSE 0)
    + (IF HasLineRange(file)
       THEN 12 + Digits(file.lineStart[1]) + 1 + Digits(file.lineEnd[1]) + 1
       ELSE 0)
    + 55 + StrLen(file.path) + 1

\* The header of a file's entry, as its length.
fileHeader(file) ==
    5 + StrLen(file.type) + 2 + StrLen(file.path)
    + (IF file.description # "" THEN 3 + StrLen(file.description) ELSE 0)
    + (IF HasLineRange(file)
       THEN 8 + Digits(file.lineStart[1]) + 1 + Digits(file.lineEnd[1]) + 1
       ELSE 0)
    + 2

priorityOrder(type) ==
    CASE type = "TO_MODIFY" -> 1
      [] type = "REFERENCE" -> 2
      [] type = "DEPENDENCY" -> 3
      [] type = "CREATE" -> 4
      [] OTHER -> 5

\* The stable sort by priority.
sortedFiles(relatedFiles) ==
    LET Of(p) == LET Is(f) == priorityOrder(f.type) = p
                 IN  SelectSeq(relatedFiles, Is)
    IN  Of(1) \o Of(2) \o Of(3) \o Of(4) \o Of(5)

\* The loop over the sorted files: it stops before a file once the counted
\* length has reached the limit; each entry adds the header, the opening
\* fence (4 characters), the info and the closing fence with its blank line
\* (6 characters) to the content, and counts the header, the info and 8.
RECURSIVE loadLoop(_, _, _, _, _)
loadLoop(files, i, maxTotalLength, totalLength, content) ==
    IF i > Len(files)
    THEN [content |-> content, loaded |-> Len(files), limitReached |-> FALSE]
    ELSE IF totalLength >= maxTotalLength
    THEN [content |-> content, loaded |-> i - 1, limitReached |-> TRUE]
    ELSE loadLoop(files, i + 1, maxTotalLength,
                  totalLength + generateFileInfo(files[i])
                     + fileHeader(files[i]) + 8,
                  content + fileHeader(files[i]) + 4
                     + generateFileInfo(files[i]) + 6)

\* loadTaskRelatedFiles, with the content as its number of characters.
modelLoadTaskRelatedFiles(relatedFiles, maxTotalLength) ==
    IF Len(relatedFiles) = 0
    THEN [content |-> 0, loaded |-> 0, limitReached |-> FALSE]
    ELSE loadLoop(sortedFiles(relatedFiles), 1, maxTotalLength, 0, 0)

loadTaskRelatedFiles(relatedFiles, maxTotalLength) ==
    Respond([Call("loadTaskRelatedFiles", "", 0, "", Malformed, "loaded",
                  TRUE, Absent, <<>>, {}, <<>>)
               EXCEPT !.args = Some([relatedFiles |-> relatedFiles,
                                     maxTotalLength |-> maxTotalLength]),
                      !.returned =
                         Some(modelLoadTaskRelatedFiles(relatedFiles,
                                                        maxTotalLength))])

\* Lists of up to two files of different types, with and without a line
\* range, and limits below, between and above the lengths of their entries.
LoaderFiles ==
    { FileInOrder, FileUnbounded,
      [FileInOrder EXCEPT !.type = "OTHER"],
      [FileUnbounded EXCEPT !.type = "REFERENCE"],
      [FileUnbounded EXCEPT !.description = ""] }

LoaderFileLists ==
    {<<>>} \cup {<<f>> : f \in LoaderFiles}
           \cup {<<f, g>> : f \in LoaderFiles, g \in LoaderFiles}

LoaderMaxLengths == {0, 100, 183, 200, 400, 15000}

InitLoader ==
    /\ tasks = <<>>
    /\ backups = <<>>
    /\ nextId = 1
    /\ clock = 1
    /\ running = {}
    /\ view = NoView
    /\ last = Call("none", "", 0, "", Malformed, "none", FALSE, Absent,
                    <<>>, {}, <<>>)

NextLoader ==
    \E relatedFiles \in LoaderFileLists, maxTotalLength \in LoaderMaxLengths :
        loadTaskRelatedFiles(relatedFiles, maxTotalLength)

SpecLoader == InitLoader /\ [][NextLoader]_vars

\* ------------------------------------------------- dependency graphs
\* Stores of three pending tasks under every dependency graph over their
\* ids; executeTask and verifyTask never change the graph.
GraphOrder == <<"1", "2", "3">>

DependencyGraphs == [GateIds -> SUBSET GateIds]

DependencyList(S) == SelectSeq(GraphOrder, LAMBDA id : id \in S)

DependenciesOf(ts, id) ==
    UNION { {ts[i].dependencies[d] : d \in 1..Len(ts[i].dependencies)} :
               i \in {j \in 1..Len(ts) : ts[j].id = id} }

\* The ids reached from the ids in S along dependencies in at most n steps,
\* passing only through ids in within.
RECURSIVE ReachedFrom(_, _, _, _)
ReachedFrom(ts, S, within, n) ==
    IF n = 0 THEN S
    ELSE ReachedFrom(ts,
                     S \cup {d \in within :
                                \E s \in S : d \in DependenciesOf(ts, s)},
                     within, n - 1)

\* The task id lies on a dependency cycle that runs through ids in within.
OnCycleWithin(ts, id, within) ==
    /\ id \in within
    /\ id \in ReachedFrom(ts, DependenciesOf(ts, id) \cap within, within,
                          Len(ts))

OnCycle(ts, id) == OnCycleWithin(ts, id, TaskIds(ts))

IsAcyclic(ts) == \A id \in TaskIds(ts) : ~OnCycle(ts, id)

GraphStore(graph, status1) ==
    <<GateTask("1", "A", DependencyList(graph["1"]), status1),
      GateTask("2", "B", DependencyList(graph["2"]), PENDING),
      GateTask("3", "C", DependencyList(graph["3"]), PENDING)>>

\* Every graph without a cycle has an order in which dependencies point
\* backwards; up to the naming of the tasks these are all of them.
PointsBackwards(graph) ==
    /\ graph["1"] = {}
    /\ graph["2"] \subseteq {"1"}
    /\ graph["3"] \subseteq {"1", "2"}

AcyclicStores ==
    { s \in {GraphStore(graph, PENDING) :
                graph \in {g \in DependencyGraphs : PointsBackwards(g)}} :
         IsAcyclic(s) }

GraphSummary == CHOOSE summary \in Summaries : TRUE

NextGraph ==
    \/ \E taskId \in GateIds : executeTask(taskId)
    \/ \E taskId \in GateIds, score \in Scores :
          verifyTask(taskId, GraphSummary, score)

InitAcyclic ==
    /\ tasks \in AcyclicStores
    /\ backups = <<>>
    /\ nextId = 4
    /\ clock = 1
    /\ running = {}
    /\ view = NoView
    /\ last = Call("none", "", 0, "", Malformed, "none", FALSE, Absent,
                    <<>>, {}, <<>>)

\* The caller keeps starting tasks that can start and keeps verifying tasks
\* in progress with a passing score.
StartsSomeTask ==
    \E taskId \in GateIds : executeTask(taskId) /\ tasks' # tasks

CompletesSomeTask ==
    \E taskId \in GateIds :
        verifyTask(taskId, GraphSummary, PassScore) /\ tasks' # tasks

FairCalls == WF_vars(StartsSomeTask) /\ WF_vars(CompletesSomeTask)

SpecAcyclic == InitAcyclic /\ [][NextGraph]_vars /\ FairCalls

\* Graphs with a cycle and at most three edges; the first task is pending
\* or, its dependencies having been replaced after it was started, in
\* progress.
EdgeCount(graph) ==
    Cardinality(graph["1"]) + Cardinality(graph["2"])
       + Cardinality(graph["3"])

MaxEdges == 3

CyclicStores ==
    { s \in {GraphStore(graph, status1) :
                graph \in {g \in DependencyGraphs : EdgeCount(g) <= MaxEdges},
                status1 \in {PENDING, IN_PROGRESS}} :
         ~IsAcyclic(s) }

InitCyclic ==
    /\ tasks \in CyclicStores
    /\ backups = <<>>
    /\ nextId = 4
    /\ clock = 1
    /\ running = {}
    /\ view = NoView
    /\ last = Call("none", "", 0, "", Malformed, "none", FALSE, Absent,
                    <<>>, {}, <<>>)

SpecCyclic == InitCyclic /\ [][NextGraph]_vars

\* ------------------------------------------- executeTask when a call throws
\* executeTask when one of its awaited calls throws: the catch of the
\* handler answers 'Error executing task'.  A throw in getTaskById,
\* canExecuteTask or updateTaskStatus leaves the durable set as it was; a
\* throw in assessTaskComplexity, in the reads of the dependencies or in
\* getExecuteTaskPrompt comes after updateTaskStatus has written.
executeTaskThrows(taskId) ==
    LET found == getTaskById(tasks, taskId)
        executionCheck == canExecuteTask(tasks, taskId)
        R == Call("executeTask", taskId, 0, "", Malformed, "error", FALSE,
                  Absent, <<>>, {}, <<>>)
    IN  \/ Respond(R)
        \/ /\ found # Absent
           /\ ~GateRefuses(executionCheck)
           /\ ~IsAlreadyInProgress(found[1])
           /\ ~IsAlreadyCompleted(found[1])
           /\ \E now \in Nows :
                 /\ tasks' = updateTaskStatus(tasks, taskId, IN_PROGRESS, now)
                 /\ clock' = now
                 /\ last' = R
                 /\ UNCHANGED <<view, backups, nextId, running>>

NextThrows ==
    \/ \E taskId \in GateIds \cup {"9"} : executeTask(taskId)
    \/ \E taskId \in GateIds \cup {"9"} : executeTaskThrows(taskId)
    \/ \E taskId \in GateIds, summary \in Summaries, score \in Scores :
          verifyTask(taskId, summary, score)

SpecThrows == InitGate /\ [][NextThrows]_vars

\* -------------------------------------------------------- the live view
compareDependencies_orderMatters(deps1, deps2) == deps1 = deps2

\* compareDependencies: the same number of entries and the same ids.
compareDependencies(deps1, deps2) ==
    LET ids1 == {deps1[i] : i \in 1..Len(deps1)}
        ids2 == {deps2[i] : i \in 1..Len(deps2)}
    IN  /\ Len(deps1) = Len(deps2)
        /\ Cardinality(ids1) = Cardinality(ids2)
        /\ \A id \in ids1 : id \in ids2

\* compareRelatedFiles: the same paths and types in the same order; no
\* files and an empty list are alike.
compareRelatedFiles(files1, files2) ==
    LET arr1 == IF files1 = Absent THEN <<>> ELSE files1[1]
        arr2 == IF files2 = Absent THEN <<>> ELSE files2[1]
    IN  /\ Len(arr1) = Len(arr2)
        /\ \A i \in 1..Len(arr1) :
              arr1[i].path = arr2[i].path /\ arr1[i].type = arr2[i].type

fieldsToCompare ==
    {"name", "description", "status", "notes", "implementationGuide",
     "verificationCriteria", "summary"}

\* didTasksChange: a different length, a removed task, a new task, or a
\* task that differs in a compared field, its dependencies, its related
\* files or updatedAt.  The old task of an id is the last one with that id.
didTasksChange(oldTasks, newTasks) ==
    LET newTaskIds == TaskIds(newTasks)
        Old(id) == LET hits == {i \in 1..Len(oldTasks) : oldTasks[i].id = id}
                   IN  oldTasks[CHOOSE i \in hits : \A k \in hits : k <= i]
        Modified(newTask) ==
            \/ newTask.id \notin TaskIds(oldTasks)
            \/ \E field \in fieldsToCompare :
                  Old(newTask.id)[field] # newTask[field]
            \/ ~compareDependencies(Old(newTask.id).dependencies,
                                    newTask.dependencies)
            \/ ~compareRelatedFiles(Old(newTask.id).relatedFiles,
                                    newTask.relatedFiles)
            \/ Old(newTask.id).updatedAt # newTask.updatedAt
    IN  IF Len(oldTasks) # Len(newTasks) THEN TRUE
        ELSE IF \E i \in 1..Len(oldTasks) : oldTasks[i].id \notin newTaskIds
        THEN TRUE
        ELSE \E j \in 1..Len(newTasks) : Modified(newTasks[j])

\* The record of a step of the view.
ViewCall(op, resp) ==
    Call(op, "", 0, "", Malformed, resp, resp # "error", Absent, <<>>, {},
         <<>>)

ViewStep(call, after) ==
    /\ view' = after
    /\ last' = call
    /\ UNCHANGED <<tasks, backups, nextId, clock, running>>

Without(s, i) == SubSeq(s, 1, i - 1) \o SubSeq(s, i + 1, Len(s))

\* A tool call replaces the durable set and the server sends an 'update'
\* event on every open connection.
serverUpdate(snapshot) ==
    /\ view.version < MaxVersion
    /\ snapshot # tasks
    /\ tasks' = snapshot
    /\ view' = [view EXCEPT !.version = @ + 1, !.events = @ + view.open,
                            !.missed = @ \/ view.open = 0]
    /\ last' = ViewCall("serverUpdate", "update")
    /\ UNCHANGED <<backups, nextId, clock, running>>

\* The 'update' listener: it calls fetchTasks, which runs up to its fetch.
updateEvent ==
    /\ view.open > 0
    /\ view.events > 0
    /\ Len(view.fetches) < MaxFetches
    /\ ViewStep([ViewCall("update", "fetchTasks")
                   EXCEPT !.args = Some([fetches |-> Len(view.fetches)])],
                [view EXCEPT !.events = @ - 1,
                             !.fetches = Append(@, [pc |-> "request",
                                                    tasks |-> <<>>,
                                                    version |-> 0])])

\* The server answers a request with the durable set of that moment.
serverResponds(i) ==
    /\ view.fetches[i].pc = "request"
    /\ ViewStep(ViewCall("serverResponds", "tasks"),
                [view EXCEPT !.fetches[i] = [pc |-> "response",
                                             tasks |-> tasks,
                                             version |-> view.version]])

\* fetchTasks after its awaits: a response has arrived, whichever request
\* it answers; the snapshot is replaced when didTasksChange says so.
fetchTasksResolves(i) ==
    LET newTasks == view.fetches[i].tasks
        tasksChanged == didTasksChange(view.tasks, newTasks)
    IN  /\ view.fetches[i].pc = "response"
        /\ ViewStep([ViewCall("fetchTasks", "rendered")
                       EXCEPT !.args = Some([tasks |-> view.tasks,
                                             newTasks |-> newTasks,
                                             held |-> view.held,
                                             version |->
                                                view.fetches[i].version]),
                              !.returned = Some(tasksChanged)],
                    [view EXCEPT
                        !.tasks = IF tasksChanged THEN newTasks ELSE @,
                        !.held = IF tasksChanged
                                 THEN view.fetches[i].version ELSE @,
                        !.fetches = Without(@, i)])

\* fetchTasks when the fetch fails or the response is not ok: the catch
\* keeps the snapshot.
fetchTasksFails(i) ==
    ViewStep(ViewCall("fetchTasks", "error"),
             [view EXCEPT !.fetches = Without(@, i), !.missed = TRUE])

\* The connection of the EventSource is established.
sseOpen ==
    /\ view.connecting > 0
    /\ ViewStep(ViewCall("onopen", "open"),
                [view EXCEPT !.connecting = @ - 1, !.open = @ + 1])

sseError_keepsOpen ==
    /\ view.errors < MaxErrors
    /\ view.open > 0
    /\ ViewStep(ViewCall("onerror", "closed"),
                [view EXCEPT !.timers = @ + 1, !.errors = @ + 1])

\* onerror: the failing EventSource is closed, its undelivered events are
\* lost, and setupSSE is scheduled once.
sseError ==
    /\ view.errors < MaxErrors
    /\ \/ /\ view.connecting > 0
          /\ ViewStep(ViewCall("onerror", "closed"),
                      [view EXCEPT !.connecting = @ - 1, !.timers = @ + 1,
                                   !.errors = @ + 1])
       \/ /\ view.open > 0
          /\ ViewStep(ViewCall("onerror", "closed"),
                      [view EXCEPT !.open = @ - 1, !.timers = @ + 1,
                                   !.events = 0, !.errors = @ + 1,
                                   !.missed = @ \/ view.events > 0])

\* The timer fires: setupSSE creates a new EventSource.
setupSSE ==
    /\ view.timers > 0
    /\ ViewStep(ViewCall("setupSSE", "connecting"),
                [view EXCEPT !.timers = @ - 1, !.connecting = @ + 1])

\* The view after DOMContentLoaded: fetchTasks has sent its request and
\* setupSSE has created the EventSource.
LoadedView ==
    [NoView EXCEPT !.connecting = 1,
                   !.fetches = <<[pc |-> "request", tasks |-> <<>>,
                                  version |-> 0]>>]

\* The server states the view is shown: one task, pending, in progress or
\* completed.
ViewSnapshots ==
    { <<GateTask("1", "A", <<>>, status)>> :
         status \in {PENDING, IN_PROGRESS, COMPLETED} }

InitView ==
    /\ tasks = <<GateTask("1", "A", <<>>, PENDING)>>
    /\ backups = <<>>
    /\ nextId = 2
    /\ clock = 1
    /\ running = {}
    /\ view = LoadedView
    /\ last = Call("none", "", 0, "", Malformed, "none", FALSE, Absent,
                    <<>>, {}, <<>>)

NextView ==
    \/ \E snapshot \in ViewSnapshots : serverUpdate(snapshot)
    \/ updateEvent
    \/ \E i \in 1..Len(view.fetches) : serverResponds(i)
    \/ \E i \in 1..Len(view.fetches) : fetchTasksResolves(i)
    \/ \E i \in 1..Len(view.fetches) : fetchTasksFails(i)
    \/ sseOpen
    \/ sseError
    \/ setupSSE

\* The browser runs the timers it has set and reports a connection that
\* has been established.
FairView == WF_vars(sseOpen) /\ WF_vars(setupSSE)

SpecView == InitView /\ [][NextView]_vars /\ FairView

\* ------------------------------------------------ didTasksChange on its own
\* A fetch whose response is compared with the snapshot the view holds,
\* for every pair of snapshots out of: a task B that depends on 1 and 3 and
\* has one related file; B with another status, name, description, notes,
\* guide, criteria or summary; B with its dependencies in another order,
\* repeated, fewer or other; B with its files absent, empty, of another
\* path, type or description; B updated, B with nothing but createdAt
\* changed; a second task added; another task alone; no task.
DiffBase ==
    [GateTask("2", "B", <<"1", "3">>, PENDING)
        EXCEPT !.relatedFiles = Some(<<FileInOrder>>)]

DiffTasks ==
    { DiffBase,
      [DiffBase EXCEPT !.status = IN_PROGRESS],
      [DiffBase EXCEPT !.name = "C"],
      [DiffBase EXCEPT !.description = "t2"],
      [DiffBase EXCEPT !.notes = Absent],
      [DiffBase EXCEPT !.implementationGuide = "t2"],
      [DiffBase EXCEPT !.verificationCriteria = Absent],
      [DiffBase EXCEPT !.summary = Some("summary")],
      [DiffBase EXCEPT !.dependencies = <<"3", "1">>],
      [DiffBase EXCEPT !.dependencies = <<"1", "3", "3">>],
      [DiffBase EXCEPT !.dependencies = <<"1", "1", "3">>],
      [DiffBase EXCEPT !.dependencies = <<"1">>],
      [DiffBase EXCEPT !.dependencies = <<"1", "1">>],
      [DiffBase EXCEPT !.dependencies = <<"1", "4">>],
      [DiffBase EXCEPT !.relatedFiles = Absent],
      [DiffBase EXCEPT !.relatedFiles = Some(<<>>)],
      [DiffBase EXCEPT !.relatedFiles = Some(<<FileUnbounded>>)],
      [DiffBase EXCEPT !.relatedFiles =
                          Some(<<[FileInOrder EXCEPT !.type = "OTHER"]>>)],
      [DiffBase EXCEPT !.relatedFiles = Some(<<FileReversed>>)],
      [DiffBase EXCEPT !.updatedAt = 2],
      [DiffBase EXCEPT !.createdAt = 2] }

DiffSnapshots ==
    {<<>>, <<GateTask("1", "A", <<>>, PENDING)>>,
     <<DiffBase, GateTask("1", "A", <<>>, PENDING)>>,
     <<GateTask("1", "A", <<>>, PENDING), DiffBase>>}
       \cup {<<t>> : t \in DiffTasks}

InitDiff ==
    /\ tasks \in DiffSnapshots
    /\ backups = <<>>
    /\ nextId = 5
    /\ clock = 1
    /\ running = {}
    /\ \E snapshot \in DiffSnapshots :
          view = [LoadedView EXCEPT !.tasks = snapshot, !.connecting = 0,
                                    !.open = 1]
    /\ last = Call("none", "", 0, "", Malformed, "none", FALSE, Absent,
                    <<>>, {}, <<>>)

NextDiff ==
    \/ \E i \in 1..Len(view.fetches) : serverResponds(i)
    \/ \E i \in 1..Len(view.fetches) : fetchTasksResolves(i)

SpecDiff == InitDiff /\ [][NextDiff]_vars

\* ================================================================ claims
\* In every reachable state `last` is the most recent call, last.preTasks
\* the durable set that call started from and `tasks` the set it left.
Has(ts, id) == id \in TaskIds(ts)

TaskOf(ts, id) == CHOOSE t \in Range(ts) : t.id = id

StatusOf(ts, id) == TaskOf(ts, id).status

\* C1: a verifyTask call that is accepted (the task is in progress) with a
\* score of 80 or more leaves that task completed, and an accepted call
\* with a score below 80 leaves the task's status as it was.
C1_VerifyByScore ==
    (last.op = "verifyTask" /\ last.resp = "verified")
        => /\ Has(last.preTasks, last.taskId)
           /\ Has(tasks, last.taskId)
           /\ StatusOf(last.preTasks, last.taskId) = IN_PROGRESS
           /\ IF last.score >= 80
              THEN StatusOf(tasks, last.taskId) = COMPLETED
              ELSE StatusOf(tasks, last.taskId)
                      = StatusOf(last.preTasks, last.taskId)

C1_Witness ==
    /\ last.op = "verifyTask"
    /\ last.resp = "verified"
    /\ last.score = 80
    /\ Has(last.preTasks, last.taskId)
    /\ StatusOf(last.preTasks, last.taskId) = IN_PROGRESS
    /\ StatusOf(tasks, last.taskId) = COMPLETED

\* C2: verifyTask on a task whose status is not in_progress answers with
\* the status error, whatever the score, and leaves the task's status,
\* summary and completedAt as they were.
C2_NotInProgress ==
    (/\ last.op = "verifyTask"
     /\ Has(last.preTasks, last.taskId)
     /\ StatusOf(last.preTasks, last.taskId) # IN_PROGRESS)
        => /\ last.resp = "status_error"
           /\ ~last.success
           /\ Has(tasks, last.taskId)
           /\ LET before == TaskOf(last.preTasks, last.taskId)
                  after == TaskOf(tasks, last.taskId)
              IN  /\ after.status = before.status
                  /\ after.summary = before.summary
                  /\ after.completedAt = before.completedAt

C2_Witness ==
    /\ last.op = "verifyTask"
    /\ last.resp = "status_error"
    /\ last.score >= 80
    /\ Has(last.preTasks, last.taskId)
    /\ StatusOf(last.preTasks, last.taskId) = PENDING
    /\ StatusOf(tasks, last.taskId) = PENDING

\* C3: executeTask moves a pending task to in_progress only when the gate
\* reports it executable; when the gate reports it blocked the call is
\* refused and the task stays pending.
C3_GatedStart ==
    (/\ last.op = "executeTask"
     /\ Has(last.preTasks, last.taskId)
     /\ StatusOf(last.preTasks, last.taskId) = PENDING)
        => /\ Has(tasks, last.taskId)
           /\ StatusOf(tasks, last.taskId) = IN_PROGRESS
                 => canExecuteTask(last.preTasks, last.taskId).canExecute
           /\ ~canExecuteTask(last.preTasks, last.taskId).canExecute
                 => /\ last.resp = "blocked"
                    /\ StatusOf(tasks, last.taskId) = PENDING

C3_Witness ==
    /\ last.op = "executeTask"
    /\ last.resp = "blocked"
    /\ Has(last.preTasks, last.taskId)
    /\ StatusOf(last.preTasks, last.taskId) = PENDING
    /\ canExecuteTask(last.preTasks, last.taskId).blockedBy # <<>>
    /\ StatusOf(tasks, last.taskId) = PENDING

\* C4: completed is terminal: executeTask and verifyTask on a completed
\* task are refused and leave it completed.
C4_CompletedIsTerminal ==
    (/\ last.op \in {"executeTask", "verifyTask"}
     /\ Has(last.preTasks, last.taskId)
     /\ StatusOf(last.preTasks, last.taskId) = COMPLETED)
        => /\ last.resp \in {"already_completed", "blocked", "status_error"}
           /\ ~last.success
           /\ Has(tasks, last.taskId)
           /\ StatusOf(tasks, last.taskId) = COMPLETED

C4_Witness ==
    /\ last.op = "executeTask"
    /\ last.resp = "already_completed"
    /\ Has(last.preTasks, last.taskId)
    /\ StatusOf(last.preTasks, last.taskId) = COMPLETED
    /\ StatusOf(tasks, last.taskId) = COMPLETED

\* C5: in every reachable state a task has a completedAt exactly when its
\* status is completed, and no call changes a completedAt that is set
\* while the task stays in the durable set.
C5_CompletedAt ==
    /\ \A i \in 1..Len(tasks) :
          (tasks[i].completedAt # Absent) <=> (tasks[i].status = COMPLETED)
    /\ \A i \in 1..Len(last.preTasks) : \A j \in 1..Len(tasks) :
          (/\ last.preTasks[i].id = tasks[j].id
           /\ last.preTasks[i].completedAt # Absent)
              => tasks[j].completedAt = last.preTasks[i].completedAt

C5_Witness ==
    /\ last.op \in {"executeTask", "verifyTask", "splitTasksRaw"}
    /\ \E i \in 1..Len(last.preTasks) : \E j \in 1..Len(tasks) :
          /\ last.preTasks[i].id = tasks[j].id
          /\ tasks[j].status = COMPLETED
          /\ tasks[j].completedAt # Absent
          /\ tasks[j].completedAt = last.preTasks[i].completedAt
          /\ tasks[j].completedAt[1] < clock

\* The incoming batch of the last call and the names in it.
BatchOf(call) == call.tasksRaw.tasks

BatchNames(call) == {BatchOf(call)[k].name : k \in 1..Len(BatchOf(call))}

\* The task carries the content the caller wrote.
SameContent(t, raw) ==
    /\ t.name = raw.name
    /\ t.description = raw.description
    /\ t.notes = raw.notes
    /\ t.implementationGuide = raw.implementationGuide
    /\ t.verificationCriteria = raw.verificationCriteria
    /\ t.relatedFiles = raw.relatedFiles

SameLifecycle(t, u) ==
    /\ t.id = u.id
    /\ t.status = u.status
    /\ t.createdAt = u.createdAt
    /\ t.updatedAt = u.updatedAt
    /\ t.completedAt = u.completedAt

\* C6: a batch in which a name occurs twice is refused with a validation
\* error in every update mode, clearAllTasks included: the durable set is
\* as it was, no backup is written and no id is used.
C6_DuplicateNamesRefused ==
    (/\ last.op = "splitTasksRaw"
     /\ last.tasksRaw.wellFormed
     /\ \E i, j \in 1..Len(BatchOf(last)) :
           i # j /\ BatchOf(last)[i].name = BatchOf(last)[j].name)
        => /\ last.resp \in {"duplicate_names", "schema_error"}
           /\ ~last.success
           /\ last.backupFilePath = Absent
           /\ tasks = last.preTasks
           /\ backups = last.preBackups
           /\ nextId = last.preNextId

C6_Witness ==
    /\ last.op = "splitTasksRaw"
    /\ last.updateMode = "clearAllTasks"
    /\ last.resp = "duplicate_names"
    /\ last.preTasks # <<>>
    /\ tasks = last.preTasks
    /\ backups = <<>>

\* C7: an overwrite that is carried out keeps every task that was completed
\* as it was, removes every task that was not completed, and creates every
\* incoming task as a new pending task under an id no task had before,
\* also when its name was in use.
C7_Overwrite ==
    (/\ last.op = "splitTasksRaw"
     /\ last.updateMode = "overwrite"
     /\ last.success)
        => /\ \A i \in 1..Len(last.preTasks) :
                 IF last.preTasks[i].status = COMPLETED
                 THEN \E j \in 1..Len(tasks) : tasks[j] = last.preTasks[i]
                 ELSE ~Has(tasks, last.preTasks[i].id)
           /\ \A k \in 1..Len(BatchOf(last)) :
                 \E j \in 1..Len(tasks) :
                    /\ tasks[j].name = BatchOf(last)[k].name
                    /\ tasks[j].status = PENDING
                    /\ ~Has(last.preTasks, tasks[j].id)

C7_Witness ==
    /\ last.op = "splitTasksRaw"
    /\ last.updateMode = "overwrite"
    /\ last.success
    /\ \E i \in 1..Len(last.preTasks) : \E j \in 1..Len(tasks) :
          /\ last.preTasks[i].status = COMPLETED
          /\ last.preTasks[i] \in Range(tasks)
          /\ tasks[j].id \in Range(last.createdIds)
          /\ tasks[j].name = last.preTasks[i].name
          /\ ~Has(last.preTasks, tasks[j].id)

\* C8: selective mode leaves the id, the status and the timestamps of every
\* existing task whose name is not in the incoming batch as they were.
C8_SelectiveFrame ==
    (/\ last.op = "splitTasksRaw"
     /\ last.updateMode = "selective")
        => \A i \in 1..Len(last.preTasks) :
              last.preTasks[i].name \notin BatchNames(last)
                 => \E j \in 1..Len(tasks) :
                       SameLifecycle(tasks[j], last.preTasks[i])

C8_Witness ==
    /\ last.op = "splitTasksRaw"
    /\ last.updateMode = "selective"
    /\ last.success
    /\ last.createdIds # <<>>
    /\ \E i \in 1..Len(last.preTasks) :
          /\ last.preTasks[i].name \notin BatchNames(last)
          /\ last.preTasks[i].status # PENDING
          /\ last.preTasks[i] \in Range(tasks)

C10_Append ==
    /\ \A i, j \in 1..Len(tasks) : i # j => tasks[i].id # tasks[j].id
    /\ (/\ last.op = "splitTasksRaw"
        /\ last.updateMode = "append"
        /\ last.success)
           => /\ Len(tasks) = Len(last.preTasks) + Len(BatchOf(last))
              /\ \A i \in 1..Len(last.preTasks) : tasks[i] = last.preTasks[i]
              /\ \A k \in 1..Len(BatchOf(last)) :
                    LET new == tasks[Len(last.preTasks) + k]
                    IN  /\ new.name = BatchOf(last)[k].name
                        /\ ~Has(last.preTasks, new.id)
                        /\ \A m \in 1..Len(BatchOf(last)) :
                              m # k => tasks[Len(last.preTasks) + m].id
                                          # new.id

C10_Witness ==
    /\ last.op = "splitTasksRaw"
    /\ last.updateMode = "append"
    /\ last.success
    /\ \E i \in 1..Len(last.preTasks) : \E j \in 1..Len(tasks) :
          /\ last.preTasks[i] \in Range(tasks)
          /\ last.preTasks[i].status # COMPLETED
          /\ ~Has(last.preTasks, tasks[j].id)
          /\ tasks[j].name = last.preTasks[i].name

\* The backup the last call wrote, when it wrote one.
WroteBackup == Len(backups) = Len(last.preBackups) + 1

NewBackup == backups[Len(backups)]

\* C11: a clearAllTasks that is carried out writes a backup holding every
\* task of the durable set as it was before the call, completed or not,
\* and leaves a durable set that holds exactly the incoming tasks, as new
\* pending tasks: no task from before the call is left.
C11_ClearAllTasks ==
    (/\ last.op = "splitTasksRaw"
     /\ last.updateMode = "clearAllTasks"
     /\ last.success)
        => /\ last.backupFilePath # Absent
           /\ WroteBackup
           /\ SubSeq(backups, 1, Len(last.preBackups)) = last.preBackups
           /\ NewBackup.tasks = last.preTasks
           /\ \A i \in 1..Len(last.preTasks) :
                 ~Has(tasks, last.preTasks[i].id)
           /\ Len(tasks) = Len(BatchOf(last))
           /\ \A k \in 1..Len(BatchOf(last)) :
                 /\ SameContent(tasks[k], BatchOf(last)[k])
                 /\ tasks[k].status = PENDING

C11_Witness ==
    /\ last.op = "splitTasksRaw"
    /\ last.updateMode = "clearAllTasks"
    /\ last.success
    /\ \E i \in 1..Len(last.preTasks) :
          /\ last.preTasks[i].status = COMPLETED
          /\ last.preTasks[i] \in Range(NewBackup.tasks)
          /\ ~Has(tasks, last.preTasks[i].id)
    /\ tasks # <<>>

\* The ids handed out so far.
EverCreated == {ToString(n) : n \in 1..(nextId - 1)}

InSomeBackup(id) == \E b \in 1..Len(backups) : Has(backups[b].tasks, id)

\* C12 as stated: every task that was ever created is still in the durable
\* set or is contained in a backup.
C12_Original ==
    \A id \in EverCreated : Has(tasks, id) \/ InSomeBackup(id)

\* C12: a call removes a task from the durable set only in clearAllTasks
\* mode, after writing a backup that contains the task, or in overwrite
\* mode, which discards tasks that are not completed and writes no backup.
C12_RemovedOnlyByClearOrOverwrite ==
    \A i \in 1..Len(last.preTasks) :
        ~Has(tasks, last.preTasks[i].id)
            => /\ last.op = "splitTasksRaw"
               /\ \/ /\ last.updateMode = "clearAllTasks"
                     /\ WroteBackup
                     /\ last.preTasks[i] \in Range(NewBackup.tasks)
                  \/ /\ last.updateMode = "overwrite"
                     /\ last.success
                     /\ last.preTasks[i].status # COMPLETED
                     /\ backups = last.preBackups

C12_Witness ==
    /\ last.op = "splitTasksRaw"
    /\ last.updateMode = "overwrite"
    /\ backups = last.preBackups
    /\ \E i \in 1..Len(last.preTasks) :
          /\ ~Has(tasks, last.preTasks[i].id)
          /\ ~InSomeBackup(last.preTasks[i].id)
          /\ last.preTasks[i].status = IN_PROGRESS

\* The creation step of the last call stored the whole incoming batch.
CreateSucceeded ==
    /\ Len(tasks) >= Len(BatchOf(last))
    /\ \A k \in 1..Len(BatchOf(last)) :
          \E j \in 1..Len(tasks) :
             /\ SameContent(tasks[j], BatchOf(last)[k])
             /\ ~Has(last.preTasks, tasks[j].id)

\* C13: of a clearAllTasks call that got as far as the clear, the result
\* tells apart whether the clear was committed (the backup location is
\* returned exactly then) and whether the creation succeeded (success is
\* true exactly then); when the clear is committed and the creation fails,
\* the durable set stays empty and the backup holds the set as it was.
C13_ClearThenCreateFails ==
    (/\ last.op = "splitTasksRaw"
     /\ last.updateMode = "clearAllTasks"
     /\ last.resp = "result")
        => /\ (last.backupFilePath # Absent) <=> WroteBackup
           /\ last.success <=> (WroteBackup /\ CreateSucceeded)
           /\ (last.backupFilePath # Absent /\ ~last.success)
                 => /\ tasks = <<>>
                    /\ NewBackup.tasks = last.preTasks
                    /\ last.backupFilePath = Some(Len(backups))
           /\ ~WroteBackup
                 => /\ tasks = last.preTasks
                    /\ backups = last.preBackups

C13_Witness ==
    /\ last.op = "splitTasksRaw"
    /\ last.updateMode = "clearAllTasks"
    /\ last.resp = "result"
    /\ ~last.success
    /\ last.backupFilePath # Absent
    /\ tasks = <<>>
    /\ \E i, j \in 1..Len(last.preTasks) :
          /\ last.preTasks[i].status = COMPLETED
          /\ last.preTasks[j].status = PENDING
          /\ {last.preTasks[i], last.preTasks[j]} \subseteq Range(NewBackup.tasks)

\* C14: in append, overwrite and selective mode a batch whose creation
\* fails leaves the durable set exactly as it was: no incoming task is
\* created, no existing task is discarded, no id is used and no backup is
\* written.
C14_AtomicFailure ==
    (/\ last.op = "splitTasksRaw"
     /\ last.updateMode \in {"append", "overwrite", "selective"}
     /\ last.resp = "result"
     /\ ~last.success)
        => /\ tasks = last.preTasks
           /\ nextId = last.preNextId
           /\ backups = last.preBackups
           /\ last.backupFilePath = Absent
           /\ last.createdIds = <<>>

C14_Witness ==
    /\ last.op = "splitTasksRaw"
    /\ last.updateMode = "overwrite"
    /\ last.resp = "result"
    /\ ~last.success
    /\ tasks = last.preTasks
    /\ \E i \in 1..Len(tasks) : tasks[i].status = PENDING
    /\ \E k \in 1..Len(BatchOf(last)) : BatchOf(last)[k].dependencies # <<>>

\* Every dependency of the task is the id of a task of ts that is completed.
AllDependenciesCompleted(ts, t) ==
    \A k \in 1..Len(t.dependencies) :
        \E i \in 1..Len(ts) :
            ts[i].id = t.dependencies[k] /\ ts[i].status = COMPLETED

\* C15: the gate reports a task executable exactly when every dependency
\* id is the id of an existing task that is completed: always for a task
\* without dependencies, never when a dependency id belongs to no task;
\* and executeTask refuses the task as blocked exactly when the gate does
\* not report it executable.
C15_CanExecuteIff ==
    /\ \A i \in 1..Len(tasks) :
          /\ canExecuteTask(tasks, tasks[i].id).canExecute
                <=> AllDependenciesCompleted(tasks, tasks[i])
          /\ tasks[i].dependencies = <<>>
                => canExecuteTask(tasks, tasks[i].id).canExecute
          /\ (\E k \in 1..Len(tasks[i].dependencies) :
                 ~Has(tasks, tasks[i].dependencies[k]))
                => ~canExecuteTask(tasks, tasks[i].id).canExecute
    /\ (last.op = "executeTask" /\ Has(last.preTasks, last.taskId))
          => (last.resp = "blocked"
                <=> ~AllDependenciesCompleted(
                        last.preTasks, TaskOf(last.preTasks, last.taskId)))

C15_Witness ==
    /\ last.op = "executeTask"
    /\ last.resp = "blocked"
    /\ Has(last.preTasks, last.taskId)
    /\ LET t == TaskOf(last.preTasks, last.taskId)
       IN  /\ Len(t.dependencies) = 2
           /\ \E k \in 1..2 : ~Has(last.preTasks, t.dependencies[k])
           /\ \E k \in 1..2 :
                 /\ Has(last.preTasks, t.dependencies[k])
                 /\ StatusOf(last.preTasks, t.dependencies[k]) = COMPLETED

\* The position of the first occurrence of x in s.
PositionIn(s, x) == CHOOSE i \in 1..Len(s) : s[i] = x /\ \A j \in 1..(i - 1) : s[j] # x

C17_Original ==
    (last.op = "executeTask" /\ Has(last.preTasks, last.taskId))
        => /\ StatusOf(last.preTasks, last.taskId) = IN_PROGRESS
                 => last.resp = "already_in_progress"
           /\ StatusOf(last.preTasks, last.taskId) = COMPLETED
                 => last.resp = "already_completed"

\* C18: executeTask on a task that is already in progress is a no-op that
\* is not reported as an error: it answers 'already in progress' and
\* leaves the durable set, every field of the task included, as it was.
C18_Original ==
    (/\ last.op = "executeTask"
     /\ Has(last.preTasks, last.taskId)
     /\ StatusOf(last.preTasks, last.taskId) = IN_PROGRESS)
        => /\ last.resp = "already_in_progress"
           /\ tasks = last.preTasks

\* The store holds A, without dependencies, and B, which depends on A.
IsABPair(ts) ==
    /\ Len(ts) = 2
    /\ ts[1].name = "A"
    /\ ts[1].dependencies = <<>>
    /\ ts[2].name = "B"
    /\ ts[2].dependencies = <<ts[1].id>>

\* C19: while the store holds A and B with B depending on A, the gate
\* reports B executable exactly when A is completed and otherwise blocked
\* by A alone, executeTask(B) is refused exactly then, naming A; and A
\* gets from pending to in_progress only by executeTask(A) and from there
\* to completed only by verifyTask(A) with a score of 80 or more.
C19_SequenceAB ==
    /\ IsABPair(tasks)
          => /\ canExecuteTask(tasks, tasks[2].id).canExecute
                   <=> tasks[1].status = COMPLETED
             /\ tasks[1].status # COMPLETED
                   => canExecuteTask(tasks, tasks[2].id).blockedBy
                         = <<tasks[1].id>>
    /\ (IsABPair(last.preTasks) /\ last.op = "executeTask"
           /\ last.taskId = last.preTasks[2].id)
          => /\ last.resp = "blocked"
                   <=> last.preTasks[1].status # COMPLETED
             /\ last.resp = "blocked"
                   => last.blockedByTasksText = <<last.preTasks[1].id>>
    /\ (IsABPair(last.preTasks) /\ IsABPair(tasks)
           /\ tasks[1].id = last.preTasks[1].id
           /\ tasks[1].status # last.preTasks[1].status)
          => \/ /\ last.preTasks[1].status = PENDING
                /\ tasks[1].status = IN_PROGRESS
                /\ last.op = "executeTask"
                /\ last.taskId = tasks[1].id
             \/ /\ last.preTasks[1].status = IN_PROGRESS
                /\ tasks[1].status = COMPLETED
                /\ last.op = "verifyTask"
                /\ last.taskId = tasks[1].id
                /\ last.score >= 80

C19_Witness ==
    /\ IsABPair(last.preTasks)
    /\ IsABPair(tasks)
    /\ last.op = "executeTask"
    /\ last.taskId = tasks[2].id
    /\ last.resp = "started"
    /\ tasks[1].status = COMPLETED
    /\ tasks[1].summary # Absent
    /\ tasks[2].status = IN_PROGRESS

ValidLineRange(file) ==
    \/ file.lineStart = Absent /\ file.lineEnd = Absent
    \/ /\ file.lineStart # Absent
       /\ file.lineEnd # Absent
       /\ file.lineStart[1] <= file.lineEnd[1]

ValidFiles(relatedFiles) ==
    relatedFiles # Absent
        => \A f \in 1..Len(relatedFiles[1]) : ValidLineRange(relatedFiles[1][f])

\* An incoming or stored task with an empty name or a related file whose
\* line range is invalid.
IsInvalidTask(t) == t.name = "" \/ ~ValidFiles(t.relatedFiles)

\* C21: splitTasksRaw rejects, with a validation error and before the
\* durable set is mutated, every batch with a task that has an empty name
\* or a related file with an invalid line range; no such task is ever
\* stored.
C21_Original ==
    /\ ( /\ last.op = "splitTasksRaw"
         /\ last.tasksRaw.wellFormed
         /\ \E k \in 1..Len(BatchOf(last)) : IsInvalidTask(BatchOf(last)[k]) )
          => /\ last.resp = "schema_error"
             /\ tasks = last.preTasks
    /\ \A i \in 1..Len(tasks) : ~IsInvalidTask(tasks[i])

\* C22: updateTaskContent answers a related file with one bound only, or
\* with a start after the end, with a validation error and leaves the
\* durable set as it was; after any sequence of updateTaskContent calls
\* every stored related file has both bounds or neither, in order.
C22_LineRangeRejected ==
    /\ ( /\ last.op = "updateTaskContent"
         /\ ~ValidFiles(last.updates.relatedFiles) )
          => /\ last.resp = "validation_error"
             /\ tasks = last.preTasks
    /\ \A i \in 1..Len(tasks) : ValidFiles(tasks[i].relatedFiles)

\* A reversed range is refused on a task that already carries related
\* files from an earlier update.
C22_Witness ==
    /\ last.op = "updateTaskContent"
    /\ last.resp = "validation_error"
    /\ \E f \in 1..Len(last.updates.relatedFiles[1]) :
          /\ last.updates.relatedFiles[1][f].lineStart # Absent
          /\ last.updates.relatedFiles[1][f].lineEnd # Absent
    /\ Has(tasks, last.taskId)
    /\ TaskOf(tasks, last.taskId).relatedFiles
          = Some(<<FileInOrder, FileUnbounded>>)

ContentFields ==
    {"name", "description", "notes", "dependencies", "relatedFiles",
     "implementationGuide", "verificationCriteria"}

\* The value a supplied field has once it is stored: notes, related files
\* and the verification criteria are optional fields of a task, the others
\* are stored bare.
StoredValue(updates, field) ==
    IF field \in {"notes", "relatedFiles", "verificationCriteria"}
    THEN updates[field]
    ELSE updates[field][1]

\* C23: an accepted updateTaskContent replaces each supplied field of the
\* task as a whole and changes no field that was not supplied; id, status,
\* createdAt, completedAt and summary stay, and so does every other task.
C23_WholeFieldReplace ==
    (last.op = "updateTaskContent" /\ last.resp = "updated")
        => /\ Len(tasks) = Len(last.preTasks)
           /\ \A i \in 1..Len(tasks) :
                 LET old == last.preTasks[i]
                     new == tasks[i]
                 IN  IF old.id # last.taskId THEN new = old
                     ELSE /\ \A field \in ContentFields :
                                new[field] =
                                    IF last.updates[field] = Absent
                                    THEN old[field]
                                    ELSE StoredValue(last.updates, field)
                          /\ new.id = old.id
                          /\ new.status = old.status
                          /\ new.createdAt = old.createdAt
                          /\ new.completedAt = old.completedAt
                          /\ new.summary = old.summary
                          /\ new.analysisResult = old.analysisResult

\* A description and a name are replaced on a completed task that carries
\* a summary, and its notes stay.
C23_Witness ==
    /\ last.op = "updateTaskContent"
    /\ last.resp = "updated"
    /\ last.updates.description # Absent
    /\ last.updates.notes = Absent
    /\ Has(last.preTasks, last.taskId)
    /\ TaskOf(last.preTasks, last.taskId).status = COMPLETED
    /\ TaskOf(last.preTasks, last.taskId).summary # Absent
    /\ TaskOf(last.preTasks, last.taskId).notes = Some("t3")
    /\ TaskOf(tasks, last.taskId).description = "t3"
    /\ TaskOf(tasks, last.taskId).description
          # TaskOf(last.preTasks, last.taskId).description

\* C24: in every reachable state every stored task has the status pending,
\* in_progress or completed, never blocked, and every task a batch has
\* just created is pending.
C24_StoredStatus ==
    /\ \A i \in 1..Len(tasks) :
          tasks[i].status \in {"pending", "in_progress", "completed"}
    /\ last.op = "splitTasksRaw"
          => \A i \in 1..Len(tasks) :
                ~Has(last.preTasks, tasks[i].id)
                    => tasks[i].status = "pending"

\* A batch has just created a task next to a completed one, after a task
\* was started and verified.
C24_Witness ==
    /\ last.op = "splitTasksRaw"
    /\ last.success
    /\ \E i, j \in 1..Len(tasks) :
          /\ tasks[i].status = "completed"
          /\ Has(last.preTasks, tasks[i].id)
          /\ ~Has(last.preTasks, tasks[j].id)
          /\ tasks[j].status = "pending"

\* The existing tasks that survive the mode of a call.
Survivors(call) ==
    CASE call.updateMode = "clearAllTasks" -> <<>>
      [] call.updateMode = "overwrite" ->
            SelectSeq(call.preTasks, LAMBDA t : t.status = "completed")
      [] OTHER -> call.preTasks

\* A token matches a surviving task by id, a task of the batch by name or
\* a surviving task by name.
TokenMatches(call, tok) ==
    \/ \E i \in 1..Len(Survivors(call)) : Survivors(call)[i].id = tok
    \/ \E j \in 1..Len(BatchOf(call)) : BatchOf(call)[j].name = tok
    \/ \E i \in 1..Len(Survivors(call)) : Survivors(call)[i].name = tok

\* The id a token stands for: the id itself, else the task of the batch
\* with that name, else the surviving task with that name.
TokenId(call, tok) ==
    LET keep == Survivors(call)
        inBatch == {j \in 1..Len(BatchOf(call)) : BatchOf(call)[j].name = tok}
        inKeep == {i \in 1..Len(keep) : keep[i].name = tok}
    IN  IF \E i \in 1..Len(keep) : keep[i].id = tok THEN tok
        ELSE IF inBatch # {}
        THEN call.createdIds[CHOOSE j \in inBatch : \A m \in inBatch : j <= m]
        ELSE keep[CHOOSE i \in inKeep : \A m \in inKeep : i <= m].id

\* The tokens of a batch in the order they are written.
BatchTokens(call) ==
    SeqConcat([k \in 1..Len(BatchOf(call)) |-> BatchOf(call)[k].dependencies])

\* C25: a dependency token of a batch stands for the task with that id,
\* else for the task of the batch with that name, else for the surviving
\* task with that name; a token that matches nothing fails the batch with
\* an error that names it and the durable set stays; every dependency
\* stored on a task of the batch is the id of a surviving task or of a task
\* of the batch.
C25_DependencyResolution ==
    (last.op = "splitTasksRaw" /\ last.resp = "result"
        /\ last.updateMode # "clearAllTasks")
        => LET toks == BatchTokens(last)
               bad == {p \in 1..Len(toks) : ~TokenMatches(last, toks[p])}
           IN  IF bad = {}
               THEN /\ last.success
                    /\ \A k \in 1..Len(BatchOf(last)) :
                          LET t == TaskOf(tasks, last.createdIds[k])
                              raw == BatchOf(last)[k].dependencies
                          IN  /\ t.dependencies =
                                    Dedupe([d \in 1..Len(raw) |->
                                               TokenId(last, raw[d])])
                              /\ \A d \in 1..Len(t.dependencies) :
                                    /\ Has(tasks, t.dependencies[d])
                                    /\ \/ t.dependencies[d]
                                             \in TaskIds(Survivors(last))
                                       \/ t.dependencies[d]
                                             \in Range(last.createdIds)
               ELSE /\ ~last.success
                    /\ last.message =
                          Some(toks[CHOOSE p \in bad : \A q \in bad : p <= q])
                    /\ tasks = last.preTasks

\* A batch creates a task named "9" and a task that depends on "9" while
\* the store holds a task with the id "9": the dependency is the stored
\* task, not the new one.
C25_Witness ==
    /\ last.op = "splitTasksRaw"
    /\ last.success
    /\ last.updateMode = "append"
    /\ Has(last.preTasks, "9")
    /\ Len(BatchOf(last)) = 2
    /\ BatchOf(last)[1].name = "9"
    /\ BatchOf(last)[2].dependencies = <<"9">>
    /\ TaskOf(tasks, last.createdIds[2]).dependencies = <<"9">>
    /\ last.createdIds[1] # "9"

\* The tasks of ts that are not completed have pairwise distinct names.
OpenNamesDistinct(ts) ==
    \A i, j \in 1..Len(ts) :
        (i < j /\ ts[i].status # "completed" /\ ts[j].status # "completed")
            => ts[i].name # ts[j].name

\* C26 as stated: in every reachable state the names of the tasks that
\* are not completed are pairwise distinct.
C26_Original == OpenNamesDistinct(tasks)

\* C26 amended: the tasks of one accepted batch have pairwise distinct
\* names; an accepted overwrite or clearAllTasks leaves the names of the
\* tasks that are not completed pairwise distinct, and an accepted
\* selective batch keeps them distinct when they were.
C26_BatchNamesDistinct ==
    (last.op = "splitTasksRaw" /\ last.success)
        => /\ \A k, m \in 1..Len(last.createdIds) :
                 k < m
                    => /\ last.createdIds[k] # last.createdIds[m]
                       /\ TaskOf(tasks, last.createdIds[k]).name
                             # TaskOf(tasks, last.createdIds[m]).name
           /\ last.updateMode \in {"overwrite", "clearAllTasks"}
                 => OpenNamesDistinct(tasks)
           /\ (last.updateMode = "selective"
                 /\ OpenNamesDistinct(last.preTasks))
                 => OpenNamesDistinct(tasks)

\* An overwrite has replaced a pending task by a task of the same name,
\* which is the only task of that name that is not completed.
C26_Witness ==
    /\ last.op = "splitTasksRaw"
    /\ last.success
    /\ last.updateMode = "overwrite"
    /\ \E i \in 1..Len(last.preTasks) :
          /\ last.preTasks[i].status # "completed"
          /\ last.preTasks[i].name \in BatchNames(last)
          /\ ~Has(tasks, last.preTasks[i].id)
          /\ Cardinality({k \in 1..Len(tasks) :
                            tasks[k].name = last.preTasks[i].name}) = 1

\* C27: a passing verifyTask is all-or-nothing: in no reachable state,
\* also between the steps of the handler or after a failure between them,
\* does a task carry a summary while it is still in progress.
C27_Original ==
    \A i \in 1..Len(tasks) :
        tasks[i].summary # Absent
            => /\ tasks[i].status = "completed"
               /\ tasks[i].completedAt # Absent

\* C28: executeTask writes in_progress only to a task that is in the
\* durable set at that moment, is neither in progress nor completed, and
\* has every dependency completed; no batch or content update comes
\* between its checks and its write.
C28_Original ==
    (last.op = "executeTask" /\ last.resp = "started")
        => /\ Has(last.preTasks, last.taskId)
           /\ StatusOf(last.preTasks, last.taskId) = "pending"
           /\ AllDependenciesCompleted(last.preTasks,
                                       TaskOf(last.preTasks, last.taskId))

\* The pairs of a task before a step and the same task after it, for the
\* tasks the step has changed.
ChangedByStep ==
    {<<tasks[i], tasks'[j]>> : i \in 1..Len(tasks), j \in 1..Len(tasks')}
        \cap {p \in Range(tasks) \X Range(tasks') :
                 p[1].id = p[2].id /\ p[1] # p[2]}

\* The step is a batch that was carried out.
IsBatchStep == last' # last /\ last'.op = "splitTasksRaw"

C30_FirstWriterWins ==
    (last.op = "splitTasksRaw" /\ last.success)
        => /\ \A k \in 1..Len(last.createdIds) :
                 LET id == last.createdIds[k]
                     had == IF Has(last.preTasks, id)
                            THEN TaskOf(last.preTasks, id).analysisResult
                            ELSE Absent
                 IN  TaskOf(tasks, id).analysisResult =
                        IF had = Absent THEN last.globalAnalysisResult
                        ELSE had
           /\ \A i \in 1..Len(tasks) :
                 ( /\ Has(last.preTasks, tasks[i].id)
                   /\ TaskOf(last.preTasks, tasks[i].id).analysisResult
                         # Absent )
                    => tasks[i].analysisResult
                          = TaskOf(last.preTasks, tasks[i].id).analysisResult

\* A selective batch with another analysis result updates a task that
\* carries one and creates a task: the first keeps its own, the second
\* gets the new one.
C30_Witness ==
    /\ last.op = "splitTasksRaw"
    /\ last.success
    /\ last.updateMode = "selective"
    /\ \E k, m \in 1..Len(last.createdIds) :
          /\ Has(last.preTasks, last.createdIds[k])
          /\ TaskOf(last.preTasks, last.createdIds[k]).analysisResult
                \notin {Absent, last.globalAnalysisResult}
          /\ TaskOf(tasks, last.createdIds[k]).analysisResult
                # last.globalAnalysisResult
          /\ TaskOf(tasks, last.createdIds[k]).description
                # TaskOf(last.preTasks, last.createdIds[k]).description
          /\ ~Has(last.preTasks, last.createdIds[m])
          /\ TaskOf(tasks, last.createdIds[m]).analysisResult
                = last.globalAnalysisResult

\* The metrics of a stored task as the thresholds meet them.
DescriptionLengthOf(t) == StrLen(t.description)

NotesLengthOf(t) == IF t.notes = Absent THEN 0 ELSE StrLen(t.notes[1])

\* C31: the level executeTask reports for the task it starts is very high
\* when the description is longer than 2000, the notes longer than 1000 or
\* the dependencies more than 10, else high above 1000, 500 and 5, else
\* medium above 500, 200 and 2, else low; absent notes count as 0.
C31_ComplexityLevel ==
    (last.op = "executeTask" /\ last.resp = "started")
        => LET t == TaskOf(tasks, last.taskId)
               dl == DescriptionLengthOf(t)
               nl == NotesLengthOf(t)
               dc == Len(t.dependencies)
           IN  /\ last.complexityAssessment # Absent
               /\ last.complexityAssessment[1].level =
                     IF dl > 2000 \/ nl > 1000 \/ dc > 10
                     THEN "very_high_complexity"
                     ELSE IF dl > 1000 \/ nl > 500 \/ dc > 5
                     THEN "high_complexity"
                     ELSE IF dl > 500 \/ nl > 200 \/ dc > 2
                     THEN "medium_complexity"
                     ELSE "low_complexity"

\* A task with a description of exactly 2000 characters, no notes and six
\* dependencies is started and reported as high.
C31_Witness ==
    /\ last.op = "executeTask"
    /\ last.resp = "started"
    /\ TaskOf(tasks, last.taskId).description = "len2000"
    /\ TaskOf(tasks, last.taskId).notes = Absent
    /\ Len(TaskOf(tasks, last.taskId).dependencies) = 6
    /\ last.complexityAssessment[1].level = "high_complexity"

\* C32 as stated: the content loadTaskRelatedFiles returns has at most
\* maxTotalLength characters, for every list of files and every limit.
C32_Original ==
    last.op = "loadTaskRelatedFiles"
        => last.returned[1].content <= last.args[1].maxTotalLength

\* A pending task that the gate reports as executable.
IsPendingExecutable(ts, i) ==
    /\ ts[i].status = PENDING
    /\ canExecuteTask(ts, ts[i].id).canExecute

AllCompleted == \A i \in 1..Len(tasks) : tasks[i].status = COMPLETED

SomeTaskCanMove ==
    AllCompleted
       \/ \E i \in 1..Len(tasks) :
             tasks[i].status = IN_PROGRESS \/ IsPendingExecutable(tasks, i)

\* C33: when every dependency names a stored task and the graph has no
\* cycle, every reachable state with a task that is not completed has a task
\* in progress or a pending task the gate lets start, and when the caller
\* keeps calling executeTask and verifyTask with a passing score for every
\* task, all tasks are eventually completed.
C33_NoDeadlock == [](IsAcyclic(tasks) => SomeTaskCanMove) /\ <>AllCompleted

\* The last task of a chain of three has just been completed.
C33_Witness ==
    /\ AllCompleted
    /\ last.op = "verifyTask"
    /\ \E i \in 1..Len(tasks) : Len(tasks[i].dependencies) = 2
    /\ \E i \in 1..Len(last.preTasks) :
          /\ last.preTasks[i].id = last.taskId
          /\ last.preTasks[i].status = IN_PROGRESS
          /\ last.preTasks[i].dependencies # <<>>

PendingIds(ts) == {ts[i].id : i \in {j \in 1..Len(ts) : ts[j].status = PENDING}}

\* The task lies on a dependency cycle all of whose tasks are pending.
OnPendingCycle(ts, id) == OnCycleWithin(ts, id, PendingIds(ts))

\* The call left the task pending, and executeTask answered that the task
\* is blocked, naming only direct dependencies of the task.
LeftBlocked ==
    /\ StatusOf(tasks, last.taskId) = PENDING
    /\ last.op = "executeTask"
          => /\ last.resp = "blocked"
             /\ last.blockedByTasksText # <<>>
             /\ \A k \in 1..Len(last.blockedByTasksText) :
                   last.blockedByTasksText[k]
                      \in DependenciesOf(last.preTasks, last.taskId)

\* C34 as stated: no executeTask or verifyTask call moves a pending task
\* that lies on a dependency cycle.
C34_Original ==
    ( /\ last.op \in {"executeTask", "verifyTask"}
      /\ StatusOf(last.preTasks, last.taskId) = PENDING
      /\ OnCycle(last.preTasks, last.taskId) )
        => LeftBlocked

\* C34: no executeTask or verifyTask call moves a pending task that lies on
\* a dependency cycle whose tasks are all pending; the tasks of such a
\* cycle therefore stay pending and on it after every call, and each
\* executeTask call on one of them answers with the direct dependencies
\* that block it.
C34_PendingCycleBlocked ==
    ( /\ last.op \in {"executeTask", "verifyTask"}
      /\ OnPendingCycle(last.preTasks, last.taskId) )
        => /\ LeftBlocked
           /\ \A id \in TaskIds(last.preTasks) :
                 OnPendingCycle(last.preTasks, id) => OnPendingCycle(tasks, id)

\* executeTask was refused for a task on a cycle of two or more pending
\* tasks after another task had been started and completed.
C34_Witness ==
    /\ last.op = "executeTask"
    /\ last.resp = "blocked"
    /\ OnPendingCycle(tasks, last.taskId)
    /\ last.taskId \notin DependenciesOf(tasks, last.taskId)
    /\ \E i \in 1..Len(tasks) : tasks[i].status = COMPLETED

\* The incoming text fails one of the three checks: it is not JSON, it is
\* not a list of at least one task with a description of at least 10
\* characters and a name of at most 100, or a name occurs twice in it.
FailsAnInputCheck(raw) ==
    \/ ~raw.wellFormed
    \/ Len(raw.tasks) = 0
    \/ \E k \in 1..Len(raw.tasks) :
          \/ StrLen(raw.tasks[k].description) < 10
          \/ StrLen(raw.tasks[k].name) > 100
    \/ \E i, j \in 1..Len(raw.tasks) :
          i # j /\ raw.tasks[i].name = raw.tasks[j].name

\* C35: in clearAllTasks mode a batch that fails JSON parsing, the schema
\* or the duplicate-name check is refused with the durable set and the
\* backups as they were and no backup file reported; a backup is written
\* and the set is cleared only for a batch that passed all three.
C35_ChecksBeforeClear ==
    (last.op = "splitTasksRaw" /\ last.updateMode = "clearAllTasks")
        => /\ FailsAnInputCheck(last.tasksRaw)
                => /\ last.resp \in {"parse_error", "schema_error",
                                     "duplicate_names"}
                   /\ ~last.success
                   /\ tasks = last.preTasks
                   /\ backups = last.preBackups
                   /\ last.backupFilePath = Absent
           /\ (backups # last.preBackups \/ last.backupFilePath # Absent
                  \/ TaskIds(last.preTasks) \ TaskIds(tasks) # {})
                => ~FailsAnInputCheck(last.tasksRaw)

\* A clearAllTasks batch with a description that is too short was refused
\* while the durable set held tasks, and the set and the backups stayed.
C35_Witness ==
    /\ last.op = "splitTasksRaw"
    /\ last.updateMode = "clearAllTasks"
    /\ last.resp = "schema_error"
    /\ last.tasksRaw.wellFormed
    /\ Len(last.tasksRaw.tasks) > 0
    /\ last.preTasks # <<>>
    /\ tasks = last.preTasks
    /\ backups = last.preBackups

\* C36 as stated: after an executeTask call that returned anything but the
\* success prompt every task has the status it had before the call, and a
\* task that the call left in progress without having found it so got the
\* success prompt.
C36_Original ==
    last.op = "executeTask"
        => /\ last.resp # "started"
                => \A i \in 1..Len(last.preTasks) :
                      StatusOf(tasks, last.preTasks[i].id)
                         = last.preTasks[i].status
           /\ ( /\ Has(tasks, last.taskId)
                /\ StatusOf(tasks, last.taskId) = IN_PROGRESS
                /\ StatusOf(last.preTasks, last.taskId) # IN_PROGRESS )
                => last.resp = "started"

\* The update supplies no field: every text field is absent or empty and
\* neither dependencies nor related files are given.
SuppliesNothing(updates) ==
    /\ \A text \in {updates.name, updates.description, updates.notes,
                    updates.implementationGuide,
                    updates.verificationCriteria} :
          text = Absent \/ text = Some("")
    /\ updates.dependencies = Absent
    /\ updates.relatedFiles = Absent

\* C37: an updateTaskContent call that supplies no field is answered as an
\* empty update, and a call for an id no task has is answered as not found
\* (or with the validation error or the empty-update answer that are tested
\* first); in both cases the durable set, the backups and the next id are
\* as they were and no success is reported.
C37_NoMutation ==
    last.op = "updateTaskContent"
        => /\ SuppliesNothing(last.updates)
                => /\ last.resp = "empty_update"
                   /\ ~last.success
                   /\ tasks = last.preTasks
                   /\ backups = last.preBackups
                   /\ nextId = last.preNextId
           /\ ~Has(last.preTasks, last.taskId)
                => /\ last.resp \in {"not_found", "validation_error",
                                     "empty_update"}
                   /\ SuppliesNothing(last.updates)
                         \/ last.updates.relatedFiles # Absent
                         \/ last.resp = "not_found"
                   /\ ~last.success
                   /\ tasks = last.preTasks
                   /\ backups = last.preBackups
                   /\ nextId = last.preNextId

\* A new name and description for an id that no task has were answered as
\* not found, after an update of a stored task had gone through.
C37_Witness ==
    /\ last.op = "updateTaskContent"
    /\ ~Has(last.preTasks, last.taskId)
    /\ last.updates.name = Some("C")
    /\ last.updates.relatedFiles = Absent
    /\ last.resp = "not_found"
    /\ tasks = last.preTasks
    /\ \E i \in 1..Len(tasks) : tasks[i].name = "C"

\* C38 as stated: a response never replaces the view's snapshot by one
\* taken from an older server state than the one it holds, and when no
\* fetch is in flight, no 'update' event is waiting and every change of the
\* server has led to a fetch that ended well, the view holds the current
\* server state.
C38_Original ==
    /\ (last.op = "fetchTasks" /\ last.returned = Some(TRUE))
          => last.args[1].version >= last.args[1].held
    /\ ( /\ last.op = "fetchTasks"
         /\ last.resp = "rendered"
         /\ view.fetches = <<>>
         /\ view.events = 0
         /\ ~view.missed )
          => view.tasks = tasks

\* The EventSources that are not closed, and the connection attempts that
\* are under way or scheduled.
LiveSources == view.open + view.connecting

\* C39: at any time at most one EventSource is open or connecting, and
\* together with the scheduled reconnections there is exactly one, so that
\* each error has closed the failing source and scheduled one attempt;
\* every 'update' event that the listener has taken has started one
\* fetchTasks; and once errors have stopped, a connection is eventually
\* open for good.
C39_Reconnection ==
    /\ [](/\ LiveSources <= 1
          /\ LiveSources + view.timers = 1
          /\ (last.op = "onerror")
                => (LiveSources = 0 /\ view.timers = 1)
          /\ (last.op = "update")
                => Len(view.fetches) = last.args[1].fetches + 1)
    /\ <>[](view.open = 1)

\* An open connection failed and was closed, a reconnection followed and
\* is open, and an 'update' event on it has started a fetchTasks.
C39_Witness ==
    /\ view.errors > 0
    /\ view.open = 1
    /\ last.op = "update"
    /\ Len(view.fetches) = last.args[1].fetches + 1

DependencyIds(t) == {t.dependencies[d] : d \in 1..Len(t.dependencies)}

\* The (path, type) pairs of a task's related files, in order.
FilePairs(t) ==
    IF t.relatedFiles = Absent THEN <<>>
    ELSE [f \in 1..Len(t.relatedFiles[1]) |->
             <<t.relatedFiles[1][f].path, t.relatedFiles[1][f].type>>]

\* The two tasks agree on everything the claim lists.
AgreeAsListed(t, u) ==
    /\ t.name = u.name
    /\ t.description = u.description
    /\ t.status = u.status
    /\ t.notes = u.notes
    /\ t.implementationGuide = u.implementationGuide
    /\ t.verificationCriteria = u.verificationCriteria
    /\ t.summary = u.summary
    /\ DependencyIds(t) = DependencyIds(u)
    /\ FilePairs(t) = FilePairs(u)
    /\ t.updatedAt = u.updatedAt

UniqueIds(ts) == \A i, j \in 1..Len(ts) : ts[i].id = ts[j].id => i = j

\* The two snapshots hold the same ids and their tasks agree, as tested by
\* Agree.
SameSnapshot(old, new, Agree(_, _)) ==
    /\ TaskIds(old) = TaskIds(new)
    /\ \A i \in 1..Len(old), j \in 1..Len(new) :
          old[i].id = new[j].id => Agree(old[i], new[j])

\* The fetch has replaced the snapshot exactly when didTasksChange said so.
ReplacedWhenChanged ==
    view.tasks = IF last.returned = Some(TRUE) THEN last.args[1].newTasks
                 ELSE last.args[1].tasks

\* C40 as stated: for snapshots with unique ids didTasksChange is false
\* exactly when the ids are the same and every task agrees on the seven
\* compared fields, the set of dependency ids, the (path, type) pairs of
\* the related files and updatedAt.
C40_Original ==
    ( /\ last.op = "fetchTasks"
      /\ last.resp = "rendered"
      /\ UniqueIds(last.args[1].tasks)
      /\ UniqueIds(last.args[1].newTasks) )
        => /\ last.returned = Some(FALSE)
                <=> SameSnapshot(last.args[1].tasks, last.args[1].newTasks,
                                 AgreeAsListed)
           /\ ReplacedWhenChanged

AgreeAsCompared(t, u) ==
    AgreeAsListed(t, u) /\ Len(t.dependencies) = Len(u.dependencies)

\* C40: for snapshots with unique ids didTasksChange is false exactly when
\* the ids are the same and every task agrees on the seven compared
\* fields, the number and the set of its dependency ids, the (path, type)
\* pairs of the related files and updatedAt; so it is false for a snapshot
\* and itself and true after a change of status, an addition or a removal;
\* and the view replaces its snapshot exactly when it is true.
C40_DidTasksChange ==
    ( /\ last.op = "fetchTasks"
      /\ last.resp = "rendered"
      /\ UniqueIds(last.args[1].tasks)
      /\ UniqueIds(last.args[1].newTasks) )
        => /\ last.returned = Some(FALSE)
                <=> SameSnapshot(last.args[1].tasks, last.args[1].newTasks,
                                 AgreeAsCompared)
           /\ last.args[1].tasks = last.args[1].newTasks
                => last.returned = Some(FALSE)
           /\ ( \/ TaskIds(last.args[1].tasks) # TaskIds(last.args[1].newTasks)
                \/ \E i \in 1..Len(last.args[1].tasks),
                      j \in 1..Len(last.args[1].newTasks) :
                      /\ last.args[1].tasks[i].id = last.args[1].newTasks[j].id
                      /\ last.args[1].tasks[i].status
                            # last.args[1].newTasks[j].status )
                => last.returned = Some(TRUE)
           /\ ReplacedWhenChanged

\* The view held one task and the response has it with the dependencies in
\* the order 3, 1, as a snapshot that is not the one held: no change was
\* reported and the snapshot stayed.
C40_Witness ==
    /\ last.op = "fetchTasks"
    /\ last.returned = Some(FALSE)
    /\ last.args[1].tasks # last.args[1].newTasks
    /\ Len(last.args[1].tasks) = 1
    /\ view.tasks = last.args[1].tasks
    /\ \E i \in 1..Len(last.args[1].newTasks) :
          last.args[1].newTasks[i].dependencies = <<"3", "1">>

====
